---- MODULE Spec2Model ----
(***************************************************************************)
(* The aggregator: a proxy between proof-of-capacity miners and one or two *)
(* upstream pools or wallets.  The model covers the chain state, the       *)
(* mining-info refresher (refreshMiningInfo), the submission admission     *)
(* engine (tryUpdateRound) with the upstream submitter (proxySubmitRound), *)
(* the per-chain IP caches and the liar cache.                             *)
(*                                                                         *)
(* A minerRound keeps the fields admission reads (AccountID, Height,       *)
(* Deadline, Adjusted); Nonce and Passphrase do not influence it.          *)
(* Time is counted in whole units.  The program reads a time stamp only    *)
(* through the time elapsed since it, so a stamp is kept as that elapsed   *)
(* time: a mining info's StartTime as its age, capped at scanTime (an      *)
(* older round, and the zero time, are past scanning alike), and a cache   *)
(* item's expiration as the time it has left to live.                      *)
(*                                                                         *)
(* Spec handles one submitNonce request at a time.  SpecConc runs the      *)
(* requests as the goroutines they are: a request arrives, takes the       *)
(* bucket's mutex and forwards upstream in separate steps, so requests of  *)
(* the same IP and refresher ticks interleave inside tryUpdateRound.       *)
(* SpecAdmit is Spec with two pull upstreams and no push transport.        *)
(* SpecReply lets the refresher run between the return of tryUpdateRound   *)
(* and the answer requestHandler writes.  SpecQuery builds the query       *)
(* string of a round proxied to a pull upstream.  SpecPush follows one     *)
(* connection of the push transport: its handshake, heartbeat loop,        *)
(* writers and message handler, second by second.  SpecReconnect follows   *)
(* the heartbeat loops over the reconnects of the push transport.          *)
(* SpecBind lets the refresher run between the height checks of            *)
(* tryUpdateRound and its binding of the round to a chain.  SpecClients    *)
(* follows the miner inventory: UpdateClient and the TotalCapacity calls   *)
(* of concurrent goroutines, lock by lock.  SpecTargets is SpecAdmit with  *)
(* upstreams that may report any base target, zero included.               *)
(***************************************************************************)
EXTENDS Integers, FiniteSets, Sequences, TLC

(* ------------------------------ bounds -------------------------------- *)

\* ticker refreshes, pushed mining infos and submitNonce requests handled
\* in one run
MaxOps == 3

IPs == {"10.0.0.1"}
\* accounts that submit one request at a time
Accounts == {1, 2}
\* accounts that submit concurrently
ConcAccounts == {1, 2, 3}
\* heights a miner submits
Heights == {0, 1, 2}
\* raw deadlines a miner submits
Deadlines == {1, 3}
\* deadlines an upstream answers
AnsweredDeadlines == {0, 1, 3}
\* the (height, base target) pairs an upstream reports
MiningInfos == {<<0, 1>>, <<1, 1>>, <<1, 2>>, <<2, 2>>}
\* the longest silence of the push upstream that is told apart from a
\* longer one, in seconds
MaxSilence == 37
\* the connects of the push transport, the first one and the reconnects
MaxConnects == 3
\* passphrases of a miner and of the configuration; "" is none
Passphrases == {"", "secret", "wallet"}

(* ----------------------- constants of the program --------------------- *)

\* ^uint64(0), the "none seen" value of primBest and secBest.  Only its
\* order against deadlines is used, all of which are far below it.
maxU64 == 2147483647
\* the time to live of primc, secc and liarsCache: 15 minutes, in ticks
defaultCacheExpiration == 1
\* scanTime of the configuration, in ticks
scanTime == 2
\* outcomes of tryUpdateRound
exceededMinersPerIP == 0
notUpdated == 1
updated == 2
remoteErr == 3
wrongHeight == 4
\* primaryTargetDeadline and secondaryTargetDeadline of the configuration
primTDL == 1
secTDL == 0
\* the push transport: seconds of heartbeat silence tolerated, and the
\* period of the heartbeat ticker in seconds
threshold == 30
frequency == 5

(* ------------------------------- state -------------------------------- *)

VARIABLES
    cfg,                    \* the configuration read by main
    phase,                  \* "boot", "serving" or "exited"
    currentPrimChain, currentHeight, currentBaseTarget,
    lastPrimChain, lastHeight, lastBaseTarget,
    curPrimaryMiningInfo, curSecondaryMiningInfo,
    primBest, secBest,
    primc, secc, liarsCache,
    available, currentMiningInfo,   \* the push transport's mining info
    admitted,               \* history: the admissions behind each stored round
    inflight,               \* the submitNonce requests inside tryUpdateRound
    nOps,                   \* work done so far in this run
    out,                    \* what the last handler did
    query,                  \* a round on its way to a pull upstream
    wpc,                    \* the push transport: where each writer stands
    sendMu,                 \* who holds websocketAPI.sendMu, or "free"
    receiveMu,              \* whether the message handler holds receiveMu
    ticker,                 \* the heartbeat ticker and the time since its tick
    lastHeartBeat,          \* the time since the stamp stored in lastHeartBeat
    silence,                \* history: the time since the last heartbeat frame
    closes,                 \* history: calls of Close for the connection
    tickers,                \* the tickers of the heartbeat loops started so far
    link,                   \* whether the push connection is "open" or "closed"
    clients,                \* the miner cache: key -> clientData object and age
    clientData,             \* the clientData objects allocated so far
    minerMu,                \* per clientData object, the worker holding its mutex
    callers,                \* per worker, its position inside TotalCapacity
    registered              \* history: the miners that have asked for mining info

chainVars == <<currentPrimChain, currentHeight, currentBaseTarget,
               lastPrimChain, lastHeight, lastBaseTarget>>
miVars == <<curPrimaryMiningInfo, curSecondaryMiningInfo>>
cacheVars == <<primc, secc, liarsCache>>
wsVars == <<available, currentMiningInfo>>
coreVars == <<cfg, phase, chainVars, miVars, primBest, secBest, cacheVars,
              wsVars, admitted, inflight, nOps, out>>
pushVars == <<wpc, sendMu, receiveMu, ticker, lastHeartBeat, silence, closes>>
connVars == <<tickers, link>>
clientVars == <<clients, clientData, minerMu, callers, registered>>
auxVars == <<query, pushVars, connVars, clientVars>>
vars == <<coreVars, auxVars>>

\* a nil *miningInfo (atomic.Value never stored)
NilMiningInfo == [valid |-> FALSE, Height |-> 0, BaseTarget |-> 0, Age |-> scanTime]
\* a mining info stamped StartTime = time.Now()
MiningInfoNow(h, bt) == [valid |-> TRUE, Height |-> h, BaseTarget |-> bt, Age |-> 0]
\* miningInfo{0, 0, 0, "", []byte{0}, time.Time{}}
ResetMiningInfo == [valid |-> TRUE, Height |-> 0, BaseTarget |-> 0, Age |-> scanTime]

\* a go-cache with no items
EmptyCache == [i \in {} |-> 0]

\* a configuration: whether secondarySubmitURL is set, which upstream is the
\* push transport, minersPerIP, lieDetector and the two ignoreWorseDeadlines
Config(sec, pws, sws, m, lie, pi, si) ==
    [secondary |-> sec, primaryws |-> pws, secondaryws |-> sws,
     minersPerIP |-> m, lieDetector |-> lie,
     primaryIgnoreWorseDeadlines |-> pi, secondaryIgnoreWorseDeadlines |-> si]

Configs ==
    { Config(TRUE, FALSE, FALSE, 1, TRUE, TRUE, TRUE),
      Config(TRUE, FALSE, FALSE, 2, FALSE, FALSE, FALSE),
      Config(TRUE, TRUE, FALSE, 1, TRUE, FALSE, TRUE),
      Config(TRUE, FALSE, TRUE, 2, TRUE, TRUE, FALSE),
      Config(FALSE, FALSE, FALSE, 1, TRUE, FALSE, FALSE) }

NoOut == [op |-> "none"]

\* the goroutines that serve requests at the same time
Workers == {1, 2}
\* a goroutine that serves no request
Idle == [pc |-> "idle"]

\* the goroutines that write to the websocket connection: the subscribe
\* handler, the heartbeat loop it starts, and the HTTP workers inside
\* websocketAPI.submitNonce
Submitters == {"submitNonce1", "submitNonce2"}
Writers == {"subscribe", "heartbeat"} \cup Submitters

\* no push connection: newWebsocketAPI has run, Connect has not
PushOff ==
    /\ wpc = [p \in Writers |-> "off"]
    /\ sendMu = "free"
    /\ receiveMu = FALSE
    /\ ticker = [state |-> "none", age |-> 0]
    /\ lastHeartBeat = 0
    /\ silence = 0
    /\ closes = 0
    /\ tickers = <<>>
    /\ link = "closed"

\* no round on its way upstream
NoQuery == [sent |-> FALSE]

\* a worker outside TotalCapacity
NoCall == [pc |-> "idle", todo |-> <<>>, held |-> {}, capa |-> 0]

\* clients = cache.New(...): no miner yet
NoClients ==
    /\ clients = <<>>
    /\ clientData = <<>>
    /\ minerMu = <<>>
    /\ callers = [w \in Workers |-> NoCall]
    /\ registered = <<>>

\* the program's variables before main's initial refresh
BootCore(configs) ==
    /\ cfg \in configs
    /\ phase = "boot"
    /\ currentPrimChain = FALSE
    /\ currentHeight = 0
    /\ currentBaseTarget = 1
    /\ lastPrimChain = FALSE
    /\ lastHeight = 0
    /\ lastBaseTarget = 1
    /\ curPrimaryMiningInfo = NilMiningInfo
    /\ curSecondaryMiningInfo = NilMiningInfo
    /\ primBest = 0
    /\ secBest = 0
    /\ primc = EmptyCache
    /\ secc = EmptyCache
    /\ liarsCache = EmptyCache
    /\ available = FALSE
    /\ currentMiningInfo = NilMiningInfo
    /\ admitted = {}
    /\ inflight = [w \in Workers |-> Idle]
    /\ nOps = 0
    /\ out = NoOut

\* the state before main's initial refresh, under one of the configurations
Boot(configs) ==
    /\ BootCore(configs)
    /\ PushOff
    /\ NoClients
    /\ query = NoQuery

Init == Boot(Configs)

(* --------------------------- the wall clock --------------------------- *)

\* go-cache, dt units of time later: an item set with SetDefault lives for
\* defaultCacheExpiration; Get reports it as absent once time.Now() >
\* item.Expiration, and the janitor deletes it
Aged(c, dt) == [i \in {j \in DOMAIN c : c[j].ttl >= dt} |-> [c[i] EXCEPT !.ttl = @ - dt]]

\* a mining info dt units of time later
Older(mi, dt) == [mi EXCEPT !.Age = IF @ + dt < scanTime THEN @ + dt ELSE scanTime]

(* ------------------------- the push transport ------------------------- *)

\* onTextMessage, cmd "mining_info" or "poolmgr.mining_info": the decoded
\* mining info is stamped, stored and announced as available
onTextMessage(h, bt) ==
    /\ phase \in {"boot", "serving"}
    /\ cfg.primaryws \/ cfg.secondaryws
    /\ nOps < MaxOps
    /\ nOps' = nOps + 1
    /\ currentMiningInfo' = MiningInfoNow(h, bt)
    /\ available' = TRUE
    /\ out' = [op |-> "ws"]
    /\ UNCHANGED <<auxVars, cfg, phase, chainVars, miVars, primBest, secBest,
                   cacheVars, admitted, inflight>>

(* ------------------------ the mining-info refresher ------------------- *)

\* what a pull upstream answers to getMiningInfo: a transport error, a body
\* that does not decode, or a mining info
Fetches ==
    {[kind |-> k, Height |-> 0, BaseTarget |-> 0] : k \in {"neterr", "badjson"}}
    \cup {[kind |-> "ok", Height |-> i[1], BaseTarget |-> i[2]] : i \in MiningInfos}

\* the push transport's answer: the stored mining info, or none yet
PushFetch ==
    IF available
    THEN [kind |-> "ok", Height |-> currentMiningInfo.Height,
          BaseTarget |-> currentMiningInfo.BaseTarget]
    ELSE [kind |-> "missing", Height |-> 0, BaseTarget |-> 0]

PrimaryFetches == IF cfg.primaryws THEN {PushFetch} ELSE Fetches
SecondaryFetches == IF cfg.secondaryws THEN {PushFetch} ELSE Fetches

\* the switch over the primary chain's current and fetched mining info
PrimBranch(cur, mi) ==
    IF ~cur.valid \/ cur.Height < mi.Height THEN "new"
    ELSE IF cur.Height > mi.Height THEN "forkback"
    ELSE IF cur.BaseTarget # mi.BaseTarget THEN "forkbt"
    ELSE "none"

\* the switch over the secondary chain's current and fetched mining info
SecBranch(cur, mi) ==
    IF ~cur.valid \/ cur.Height < mi.Height THEN "new"
    ELSE IF cur.Height > mi.Height THEN "forkback"
    ELSE IF cur.BaseTarget # mi.BaseTarget THEN "forkbt"
    ELSE "none"

\* a refresher that flushes the primary cache in every primary branch
FlushesOnEveryBranch(branch) == {"primc"}

\* the caches a primary branch flushes: primc.Flush() in the fork branches
PrimFlushes(branch) == IF branch \in {"forkback", "forkbt"} THEN {"primc"} ELSE {}

\* a refresher whose secondary fork branches flush both caches
FlushesBothCaches(branch) ==
    IF branch \in {"forkback", "forkbt"} THEN {"primc", "secc"} ELSE {}

\* the caches a secondary branch flushes: secc.Flush() in the fork branches
SecFlushes(branch) == IF branch \in {"forkback", "forkbt"} THEN {"secc"} ELSE {}

\* primBest after a primary branch: atomic.StoreUint64(&primBest, ^uint64(0))
PrimBestAfter(branch) == maxU64

\* secBest after a secondary branch: atomic.StoreUint64(&secBest, ^uint64(0))
SecBestAfter(branch) == maxU64

\* currentPrimChain after a secondary branch: Set(false), but Set(true)
\* in the fork-back branch
SecCurrentPrimChainAfter(branch) == branch = "forkback"

\* a primary branch that copies the current scalars into last* whatever
\* the current chain is
CopiesLastAlways(outgoing) == TRUE

\* whether a primary branch copies the current scalars into last*:
\* if !currentPrimChain.Get()
PrimCopiesLast(outgoing) == ~outgoing

\* a refresher that takes every round for one that is being scanned
ScanningForever(age) == TRUE

\* a refresher that takes no round for one that is being scanned
NeverScanning(age) == FALSE

\* int64(time.Now().Sub(StartTime).Seconds()) < scanTime
Scanning(age) == age < scanTime

Flushed(c, name, flushes) == IF name \in flushes THEN EmptyCache ELSE c

\* the history of the rounds the caches pc and sc still hold
Held(adm, pc, sc) ==
    {g \in adm :
        LET c == IF g.primChain THEN pc ELSE sc
        IN /\ g.ip \in DOMAIN c
           /\ \E r \in c[g.ip].item : r.AccountID = g.AccountID}

\* the requests in flight once the caches are pc and sc: a request that
\* waits for, or works on, a bucket which its cache has dropped holds an
\* orphan, whose changes no cache sees
StillHeld(reqs, pc, sc) ==
    [w \in DOMAIN reqs |->
        IF reqs[w].pc \in {"wait", "locked"}
        THEN [reqs[w] EXCEPT
                 !.held = @ /\ reqs[w].ip \in DOMAIN (IF reqs[w].primChain THEN pc ELSE sc)]
        ELSE reqs[w]]

\* how a chain's previous mining info stands to the one published for it
Prev(cur, mi) ==
    IF ~cur.valid THEN "nil"
    ELSE IF cur.Height < mi.Height THEN "lower"
    ELSE IF cur.Height > mi.Height THEN "higher"
    ELSE "same"

\* a refresh that publishes nothing and yet resets the primary chain's best
\* deadline, as the transitions do
ReturnResettingBest(err, dt) ==
    /\ out' = [op |-> "refresh", err |-> err, prim |-> "none", sec |-> "none",
               prev |-> "none", reset |-> FALSE, outgoing |-> currentPrimChain]
    /\ curPrimaryMiningInfo' = Older(curPrimaryMiningInfo, dt)
    /\ curSecondaryMiningInfo' = Older(curSecondaryMiningInfo, dt)
    /\ primc' = Aged(primc, dt)
    /\ secc' = Aged(secc, dt)
    /\ primBest' = maxU64
    /\ UNCHANGED <<chainVars, secBest>>

\* a refresh, dt after the last one, that publishes nothing and returns err
RefreshReturn(err, dt) ==
    /\ out' = [op |-> "refresh", err |-> err, prim |-> "none", sec |-> "none",
               prev |-> "none", reset |-> FALSE, outgoing |-> currentPrimChain]
    /\ curPrimaryMiningInfo' = Older(curPrimaryMiningInfo, dt)
    /\ curSecondaryMiningInfo' = Older(curSecondaryMiningInfo, dt)
    /\ primc' = Aged(primc, dt)
    /\ secc' = Aged(secc, dt)
    /\ UNCHANGED <<chainVars, primBest, secBest>>

\* one of the three mutating primary branches
PrimaryTransition(mi, branch, dt) ==
    LET flushes == PrimFlushes(branch)
        lastSecondaryStart == Older(curSecondaryMiningInfo, dt).Age
    IN /\ curPrimaryMiningInfo' = MiningInfoNow(mi.Height, mi.BaseTarget)
       /\ primc' = Flushed(Aged(primc, dt), "primc", flushes)
       /\ secc' = Flushed(Aged(secc, dt), "secc", flushes)
       /\ IF PrimCopiesLast(currentPrimChain)
          THEN /\ lastBaseTarget' = currentBaseTarget
               /\ lastHeight' = currentHeight
               /\ lastPrimChain' = FALSE
          ELSE UNCHANGED <<lastBaseTarget, lastHeight, lastPrimChain>>
       /\ currentBaseTarget' = mi.BaseTarget
       /\ currentHeight' = mi.Height
       /\ currentPrimChain' = TRUE
       /\ primBest' = PrimBestAfter(branch)
       /\ curSecondaryMiningInfo' =
             IF Scanning(lastSecondaryStart)
             THEN ResetMiningInfo ELSE Older(curSecondaryMiningInfo, dt)
       /\ out' = [op |-> "refresh", err |-> FALSE, prim |-> branch, sec |-> "none",
                  prev |-> Prev(Older(curPrimaryMiningInfo, dt), mi),
                  reset |-> Scanning(lastSecondaryStart),
                  outgoing |-> currentPrimChain]
       /\ UNCHANGED secBest

\* one of the three mutating secondary branches
SecondaryTransition(mi, branch, dt) ==
    LET flushes == SecFlushes(branch)
    IN /\ curSecondaryMiningInfo' = MiningInfoNow(mi.Height, mi.BaseTarget)
       /\ primc' = Flushed(Aged(primc, dt), "primc", flushes)
       /\ secc' = Flushed(Aged(secc, dt), "secc", flushes)
       /\ IF currentPrimChain
          THEN /\ lastBaseTarget' = currentBaseTarget
               /\ lastHeight' = currentHeight
               /\ lastPrimChain' = TRUE
          ELSE UNCHANGED <<lastBaseTarget, lastHeight, lastPrimChain>>
       /\ currentBaseTarget' = mi.BaseTarget
       /\ currentHeight' = mi.Height
       /\ currentPrimChain' = SecCurrentPrimChainAfter(branch)
       /\ secBest' = SecBestAfter(branch)
       /\ curPrimaryMiningInfo' = Older(curPrimaryMiningInfo, dt)
       /\ out' = [op |-> "refresh", err |-> FALSE, prim |-> "none", sec |-> branch,
                  prev |-> Prev(Older(curSecondaryMiningInfo, dt), mi),
                  reset |-> FALSE, outgoing |-> currentPrimChain]
       /\ UNCHANGED primBest

\* errchain1 == nil: the primary upstream has answered with a mining info
PrimaryFetched(pf) == pf.kind = "ok"

\* refreshMiningInfo, dt after the last refresh, with the primary upstream
\* answering pf and the secondary upstream, if it is asked, answering sf
refreshMiningInfo(pf, sf, dt) ==
    LET curPrimMi == Older(curPrimaryMiningInfo, dt)
        curSecMi == Older(curSecondaryMiningInfo, dt)
        lastPrimaryStart == curPrimMi.Age
        pb == IF PrimaryFetched(pf) THEN PrimBranch(curPrimMi, pf) ELSE "none"
        sb == IF sf.kind = "ok" THEN SecBranch(curSecMi, sf) ELSE "none"
    IN /\ liarsCache' = Aged(liarsCache, dt)
       /\ IF pf.kind = "badjson" THEN RefreshReturn(TRUE, dt)
          ELSE IF pb # "none" THEN PrimaryTransition(pf, pb, dt)
          ELSE IF ~cfg.secondary THEN RefreshReturn(FALSE, dt)
          ELSE IF Scanning(lastPrimaryStart) THEN RefreshReturn(FALSE, dt)
          ELSE IF sf.kind # "ok" THEN RefreshReturn(TRUE, dt)
          ELSE IF sb # "none" THEN SecondaryTransition(sf, sb, dt)
          ELSE RefreshReturn(FALSE, dt)
       /\ admitted' = Held(admitted, primc', secc')
       /\ inflight' = StillHeld(inflight, primc', secc')

\* whether refreshMiningInfo reads the secondary upstream's answer
AsksSecondary(pf, dt) ==
    /\ pf.kind # "badjson"
    /\ PrimaryFetched(pf) =>
          PrimBranch(Older(curPrimaryMiningInfo, dt), pf) = "none"
    /\ cfg.secondary
    /\ ~Scanning(Older(curPrimaryMiningInfo, dt).Age)

NoFetch == [kind |-> "neterr", Height |-> 0, BaseTarget |-> 0]

\* main: the initial refresh; log.Fatalln when it returns an error
InitialRefresh ==
    /\ phase = "boot"
    /\ \E pf \in PrimaryFetches :
          \E sf \in IF AsksSecondary(pf, 0) THEN SecondaryFetches ELSE {NoFetch} :
             /\ refreshMiningInfo(pf, sf, 0)
             /\ phase' = IF out'.err THEN "exited" ELSE "serving"
    /\ UNCHANGED <<auxVars, cfg, wsVars, nOps>>

\* main: the ticker fires one tick after the last refresh, and
\* refreshMiningInfo runs, its error dropped
RefreshTick ==
    /\ phase = "serving"
    /\ nOps < MaxOps
    /\ nOps' = nOps + 1
    /\ \E pf \in PrimaryFetches :
          \E sf \in IF AsksSecondary(pf, 1) THEN SecondaryFetches ELSE {NoFetch} :
             refreshMiningInfo(pf, sf, 1)
    /\ UNCHANGED <<auxVars, cfg, phase, wsVars>>

(* ----------------------- the upstream submitter ----------------------- *)

RoundsOf(accounts) ==
    [AccountID : accounts, Height : Heights, Deadline : Deadlines,
     Adjusted : BOOLEAN]

Rounds == RoundsOf(Accounts)

\* what a pull upstream answers to submitNonce: a transport error, a body
\* that is no JSON object, a JSON object with no deadline, or one with a
\* deadline
Responses ==
    {[kind |-> k, Deadline |-> 0] : k \in {"neterr", "nojson", "nodeadline"}}
    \cup {[kind |-> "deadline", Deadline |-> v] : v \in AnsweredDeadlines}

\* jsonx.Unmarshal(resp.Body(), &mi) into a submitResponse: a field the
\* body does not carry keeps its zero value
Unmarshal(resp) ==
    [err |-> resp.kind = "nojson",
     Deadline |-> IF resp.kind = "deadline" THEN resp.Deadline ELSE 0]

\* deadline := round.Deadline; if !round.Adjusted { deadline /= baseTarget }
Adjust(round, baseTarget) ==
    IF round.Adjusted THEN round.Deadline ELSE round.Deadline \div baseTarget

\* the deadline of a locally written {"deadline":<d>,"result":"success"}:
\* the base target is read again, currentBaseTarget or, for a round of
\* another height than currentHeight, lastBaseTarget
Written(round) ==
    Adjust(round, IF round.Height # currentHeight
                  THEN lastBaseTarget ELSE currentBaseTarget)

\* whether the chain's upstream is the push transport
IsPush(primary) == (primary /\ cfg.primaryws) \/ (~primary /\ cfg.secondaryws)

\* the lie detector's verdict on a decoded response
LieDetected(round, baseTarget, resp) ==
    /\ cfg.lieDetector
    /\ ~Unmarshal(resp).err
    /\ Unmarshal(resp).Deadline # Adjust(round, baseTarget)

\* proxySubmitRound: whether it returns an error, whether it marks the ip
\* as a liar, and the upstream it submits to ("push", or the submitURL of
\* the primary or of the secondary chain)
proxySubmitRound(ip, round, primary, baseTarget, resp) ==
    IF IsPush(primary)
    THEN [err |-> FALSE, marked |-> FALSE, via |-> "push",
          written |-> {Written(round)}]
    ELSE [err |-> resp.kind = "neterr", written |-> {},
          marked |-> resp.kind # "neterr" /\ LieDetected(round, baseTarget, resp),
          via |-> IF primary THEN "primarySubmitURL" ELSE "secondarySubmitURL"]

(* --------------------- the submission admission engine ---------------- *)

\* go-cache Get: whether the cache holds an item for the key
Exists(c, ip) == ip \in DOMAIN c

\* go-cache SetDefault
SetDefault(c, ip, item) ==
    [i \in DOMAIN c \cup {ip} |->
        IF i = ip THEN [item |-> item, ttl |-> defaultCacheExpiration] ELSE c[i]]

\* admission with the second height check alone
MismatchOfBothHeights(round) ==
    round.Height # currentHeight /\ round.Height # lastHeight

\* the two height checks that return wrongHeight
HeightMismatch(round) ==
    \/ round.Height # currentHeight /\ currentPrimChain = lastPrimChain
    \/ round.Height # currentHeight /\ round.Height # lastHeight

\* admission without the liar gate
NobodyLiar(ip) == FALSE

\* the liar gate
IsLiar(ip) == Exists(liarsCache, ip)

\* admission that adjusts every round with the current base target
AlwaysCurrentBaseTarget(round) == currentBaseTarget

\* the chain and the base target a round is bound to
BoundPrimChain(round) ==
    IF round.Height = currentHeight THEN currentPrimChain ELSE lastPrimChain
BoundBaseTarget(round) ==
    IF round.Height = currentHeight THEN currentBaseTarget ELSE lastBaseTarget

\* admission without the deadlines filter
NeverFiltered(primChain, deadline) == FALSE

\* the deadlines filter against the chain's target deadline
Filtered(primChain, deadline) ==
    (primChain /\ deadline > primTDL) \/ (~primChain /\ deadline > secTDL)

\* admission without the filter against the best deadline
NeverDiscarded(primChain, deadline) == FALSE

\* the filter against the chain's best deadline
Discarded(primChain, deadline) ==
    \/ primChain /\ deadline > primBest /\ cfg.primaryIgnoreWorseDeadlines
    \/ ~primChain /\ deadline > secBest /\ cfg.secondaryIgnoreWorseDeadlines

\* the stored round of the account, as a set of at most one round
Existing(bucket, accountID) == {r \in bucket : r.AccountID = accountID}

\* admission without the minersPerIP limit: no bucket counts as full
NeverFull(bucket) == FALSE

\* minerCount == minersPerIP
Full(bucket) == Cardinality(bucket) = cfg.minersPerIP

\* an eviction loop that finds no round to delete
NoVictims(bucket, round) == {}

\* the stored rounds the loop over the full bucket may delete
Victims(bucket, round) == {r \in bucket : r.Height < round.Height}

\* admission without the comparison against the stored round
NeverIgnored(existingRound, round, deadline, baseTarget) == FALSE

\* a comparison that turns an equal deadline down too
IgnoredUnlessBetter(existingRound, round, deadline, baseTarget) ==
    \/ existingRound.Height > round.Height
    \/ /\ existingRound.Height = round.Height
       /\ Adjust(existingRound, baseTarget) <= deadline

\* an older or strictly worse submission than the stored one
Ignored(existingRound, round, deadline, baseTarget) ==
    \/ existingRound.Height > round.Height
    \/ /\ existingRound.Height = round.Height
       /\ Adjust(existingRound, baseTarget) < deadline

\* the choices the range over the map leaves open: the round deleted from
\* a full bucket, none when the loop deletes nothing
VictimsMet(bucket, round) ==
    IF /\ Existing(bucket, round.AccountID) = {}
       /\ Full(bucket)
       /\ Victims(bucket, round) # {}
    THEN Victims(bucket, round)
    ELSE {round}

VictimChoices(ip, round) ==
    LET c == IF BoundPrimChain(round) THEN primc ELSE secc
        bucket == IF Exists(c, ip) THEN c[ip].item ELSE {}
    IN IF HeightMismatch(round) THEN {round} ELSE VictimsMet(bucket, round)

\* tryUpdateRound under the bucket's lock, up to the forward: where the
\* round goes, and the bucket after the eviction loop
Decide(bucket, round, deadline, baseTarget, victim) ==
    LET existing == Existing(bucket, round.AccountID)
    IN IF existing = {}
       THEN IF Full(bucket)
            THEN IF Victims(bucket, round) # {}
                 THEN [stage |-> "evict", bucket |-> bucket \ {victim}]
                 ELSE [stage |-> "rejected", bucket |-> bucket]
            ELSE [stage |-> "add", bucket |-> bucket]
       ELSE IF \E e \in existing : Ignored(e, round, deadline, baseTarget)
       THEN [stage |-> "ignored", bucket |-> bucket]
       ELSE [stage |-> "replace", bucket |-> bucket]

\* what tryUpdateRound leaves unchanged, under a result and a stage
Rejected(result, stage, primChain, baseTarget, deadline) ==
    [result |-> result, stage |-> stage, primChain |-> primChain,
     baseTarget |-> baseTarget, deadline |-> deadline, forwards |-> 0,
     via |-> "none", marked |-> FALSE,
     primc |-> primc, secc |-> secc, primBest |-> primBest, secBest |-> secBest]

\* an end of tryUpdateRound that stores the round whatever the forward
\* returned
StoreAnyway(c, ip, bucket, round, err) ==
    IF Exists(c, ip)
    THEN [c EXCEPT ![ip].item = (bucket \ Existing(bucket, round.AccountID)) \cup {round}]
    ELSE SetDefault(c, ip, {round})

\* what the end of tryUpdateRound leaves in the chain's cache: after a
\* failed forward the bucket as it stood, and else the round in a new
\* bucket, or in the account's slot of the bucket the cache holds
Store(c, ip, bucket, round, err) ==
    IF err
    THEN IF Exists(c, ip) THEN [c EXCEPT ![ip].item = bucket] ELSE c
    ELSE IF Exists(c, ip)
    THEN [c EXCEPT ![ip].item = (bucket \ Existing(bucket, round.AccountID)) \cup {round}]
    ELSE SetDefault(c, ip, {round})

\* the end of tryUpdateRound: forward, then store the round in the bucket
\* and the deadline as the chain's best
Update(ip, round, primChain, baseTarget, deadline, resp, stage, c, bucket) ==
    LET p == proxySubmitRound(ip, round, primChain, baseTarget, resp)
        after == Store(c, ip, bucket, round, p.err)
    IN [result |-> IF p.err THEN remoteErr ELSE updated,
        stage |-> stage, primChain |-> primChain, baseTarget |-> baseTarget,
        deadline |-> deadline, forwards |-> 1, via |-> p.via, marked |-> p.marked,
        primc |-> IF primChain THEN after ELSE primc,
        secc |-> IF primChain THEN secc ELSE after,
        primBest |-> IF primChain /\ ~p.err THEN deadline ELSE primBest,
        secBest |-> IF ~primChain /\ ~p.err THEN deadline ELSE secBest]

\* tryUpdateRound past its two height checks: the liar gate, the binding
\* to a chain and a base target by the scalars as they are now, the
\* filters, the bucket and the forward
AfterHeightChecks(ip, round, resp, victim) ==
    LET primChain == BoundPrimChain(round)
        baseTarget == BoundBaseTarget(round)
        deadline == Adjust(round, baseTarget)
        c == IF primChain THEN primc ELSE secc
        bucket == IF Exists(c, ip) THEN c[ip].item ELSE {}
        d == Decide(bucket, round, deadline, baseTarget, victim)
    IN IF IsLiar(ip)
       THEN Rejected(notUpdated, "liar", TRUE, 1, 0)
       ELSE IF Filtered(primChain, deadline)
       THEN Rejected(notUpdated, "filtered", primChain, baseTarget, deadline)
       ELSE IF Discarded(primChain, deadline)
       THEN Rejected(notUpdated, "discarded", primChain, baseTarget, deadline)
       ELSE IF ~Exists(c, ip)
       THEN Update(ip, round, primChain, baseTarget, deadline, resp, "fresh", c, {})
       ELSE IF d.stage = "rejected"
       THEN Rejected(exceededMinersPerIP, "rejected", primChain, baseTarget, deadline)
       ELSE IF d.stage = "ignored"
       THEN Rejected(notUpdated, "ignored", primChain, baseTarget, deadline)
       ELSE Update(ip, round, primChain, baseTarget, deadline, resp, d.stage, c, d.bucket)

\* tryUpdateRound for a round from ip, the upstream answering resp to a
\* forward and the loop over a full bucket meeting victim first
tryUpdateRound(ip, round, resp, victim) ==
    IF HeightMismatch(round)
    THEN Rejected(wrongHeight, "height", TRUE, 1, 0)
    ELSE AfterHeightChecks(ip, round, resp, victim)

\* the answers that make a difference to a forward to a chain's upstream
Answers(primChain) ==
    IF IsPush(primChain) THEN {[kind |-> "nojson", Deadline |-> 0]}
    ELSE IF cfg.lieDetector THEN Responses
    ELSE {r \in Responses : r.kind \in {"neterr", "nojson"}}

\* the answers that make a difference to a forward of the round
ResponseChoices(round) ==
    IF HeightMismatch(round) THEN {[kind |-> "neterr", Deadline |-> 0]}
    ELSE Answers(BoundPrimChain(round))

\* the history after tryUpdateRound returned t: a round stored on top of
\* one of the same height and base target continues that round's sequence
\* of admissions, any other stored round starts a new one.  Min and Max are
\* the least and the greatest adjusted deadline admitted in the sequence.
Admit(adm, ip, round, t) ==
    LET old == {g \in adm : /\ g.primChain = t.primChain
                            /\ g.ip = ip
                            /\ g.AccountID = round.AccountID}
        same == {g \in old : /\ g.Height = round.Height
                             /\ g.BaseTarget = t.baseTarget}
        min == IF \E g \in same : g.Min < t.deadline
               THEN (CHOOSE g \in same : TRUE).Min ELSE t.deadline
        max == IF \E g \in same : g.Max > t.deadline
               THEN (CHOOSE g \in same : TRUE).Max ELSE t.deadline
    IN IF t.result # updated THEN adm
       ELSE (adm \ old) \cup
            {[primChain |-> t.primChain, ip |-> ip, AccountID |-> round.AccountID,
              Height |-> round.Height, BaseTarget |-> t.baseTarget,
              Min |-> min, Max |-> max]}

\* requestHandler, requestType submitNonce
SubmitNonce(ip, round) ==
    /\ phase = "serving"
    /\ nOps < MaxOps
    /\ nOps' = nOps + 1
    /\ \E resp \in ResponseChoices(round), victim \in VictimChoices(ip, round) :
          LET t == tryUpdateRound(ip, round, resp, victim)
          IN /\ primc' = t.primc
             /\ secc' = t.secc
             /\ primBest' = t.primBest
             /\ secBest' = t.secBest
             /\ liarsCache' = IF t.marked
                              THEN SetDefault(liarsCache, ip, TRUE)
                              ELSE liarsCache
             /\ admitted' = Held(Admit(admitted, ip, round, t), t.primc, t.secc)
             /\ out' = [op |-> "submit", result |-> t.result, stage |-> t.stage,
                        Height |-> round.Height, marked |-> t.marked,
                        resp |-> IF t.via \in {"none", "push"} THEN "none" ELSE resp.kind]
    /\ UNCHANGED <<auxVars, cfg, phase, chainVars, miVars, wsVars, inflight>>

Next ==
    \/ InitialRefresh
    \/ RefreshTick
    \/ \E i \in MiningInfos : onTextMessage(i[1], i[2])
    \/ \E ip \in IPs, round \in Rounds : SubmitNonce(ip, round)

Spec == Init /\ [][Next]_vars

(* ------------- submitNonce requests served at the same time ----------- *)

\* net/http serves each request in a goroutine of its own, so a request can
\* be anywhere inside tryUpdateRound while another one, or the refresher,
\* runs.  A request is followed from its arrival to the cache Get
\* (Arrive), through ipData.Lock() and the decisions made under the lock
\* (Lock), to the return of proxySubmitRound and the stores after it
\* (Forwarded).  The lock is released when tryUpdateRound returns.

\* what the requests return that leave tryUpdateRound before the cache Get
Early(ip, round, primChain, deadline) ==
    IF HeightMismatch(round) THEN [result |-> wrongHeight, stage |-> "height"]
    ELSE IF IsLiar(ip) THEN [result |-> notUpdated, stage |-> "liar"]
    ELSE IF Filtered(primChain, deadline) THEN [result |-> notUpdated, stage |-> "filtered"]
    ELSE IF Discarded(primChain, deadline) THEN [result |-> notUpdated, stage |-> "discarded"]
    ELSE [result |-> updated, stage |-> "none"]

\* what requestHandler answers
Answered(round, result, stage, marked, resp) ==
    [op |-> "submit", result |-> result, stage |-> stage,
     Height |-> round.Height, marked |-> marked, resp |-> resp]

\* a request enters tryUpdateRound and runs up to the cache Get; of the
\* goroutines free to serve it, which are all alike, the first one does
Arrive(w, ip, round) ==
    LET primChain == BoundPrimChain(round)
        baseTarget == BoundBaseTarget(round)
        deadline == Adjust(round, baseTarget)
        c == IF primChain THEN primc ELSE secc
        early == Early(ip, round, primChain, deadline)
    IN /\ phase = "serving"
       /\ inflight[w] = Idle
       /\ \A v \in Workers : v < w => inflight[v] # Idle
       /\ nOps < MaxOps
       /\ nOps' = nOps + 1
       /\ IF early.stage # "none"
          THEN /\ inflight' = inflight
               /\ out' = Answered(round, early.result, early.stage, FALSE, "none")
          ELSE /\ inflight' =
                     [inflight EXCEPT ![w] =
                         [pc |-> IF Exists(c, ip) THEN "wait" ELSE "fresh",
                          ip |-> ip, round |-> round, primChain |-> primChain,
                          baseTarget |-> baseTarget, deadline |-> deadline,
                          held |-> Exists(c, ip), stage |-> "fresh"]]
               /\ out' = [op |-> "arrive"]
       /\ UNCHANGED <<auxVars, cfg, phase, chainVars, miVars, primBest, secBest,
                      cacheVars, wsVars, admitted>>

\* a request that never waits for a lock
NeverLocked(w) == FALSE

\* the bucket the request got from the cache is locked by another request
Locked(w) ==
    \E v \in Workers \ {w} :
        /\ inflight[v].pc = "locked"
        /\ inflight[v].held
        /\ inflight[w].held
        /\ inflight[v].primChain = inflight[w].primChain
        /\ inflight[v].ip = inflight[w].ip

\* ipData.Lock() returns: the request looks its account up in the bucket,
\* counts it, evicts, and either returns or goes on to the forward
Lock(w) ==
    LET r == inflight[w]
        c == IF r.primChain THEN primc ELSE secc
        bucket == IF r.held THEN c[r.ip].item ELSE {}
    IN /\ r.pc = "wait"
       /\ ~Locked(w)
       /\ IF ~r.held
          THEN /\ inflight' = [inflight EXCEPT ![w].pc = "locked", ![w].stage = "orphan"]
               /\ out' = [op |-> "lock"]
               /\ UNCHANGED <<primc, secc>>
          ELSE \E victim \in VictimsMet(bucket, r.round) :
                  LET d == Decide(bucket, r.round, r.deadline, r.baseTarget, victim)
                      after == [c EXCEPT ![r.ip].item = d.bucket]
                  IN /\ primc' = IF r.primChain THEN after ELSE primc
                     /\ secc' = IF r.primChain THEN secc ELSE after
                     /\ IF d.stage \in {"rejected", "ignored"}
                        THEN /\ inflight' = [inflight EXCEPT ![w] = Idle]
                             /\ out' = Answered(r.round,
                                          IF d.stage = "rejected"
                                          THEN exceededMinersPerIP ELSE notUpdated,
                                          d.stage, FALSE, "none")
                        ELSE /\ inflight' = [inflight EXCEPT ![w].pc = "locked",
                                                             ![w].stage = d.stage]
                             /\ out' = [op |-> "lock"]
       /\ admitted' = Held(admitted, primc', secc')
       /\ UNCHANGED <<auxVars, cfg, phase, chainVars, miVars, primBest, secBest,
                      liarsCache, wsVars, nOps>>

\* proxySubmitRound returns to a request: the round is stored, in a new
\* bucket or in the locked one, the deadline becomes the chain's best, and
\* tryUpdateRound returns
Forwarded(w, resp) ==
    LET r == inflight[w]
        p == proxySubmitRound(r.ip, r.round, r.primChain, r.baseTarget, resp)
        c == IF r.primChain THEN primc ELSE secc
        after == IF p.err THEN c
                 ELSE IF r.pc = "fresh" THEN SetDefault(c, r.ip, {r.round})
                 ELSE IF r.held
                 THEN [c EXCEPT ![r.ip].item =
                          (@ \ Existing(@, r.round.AccountID)) \cup {r.round}]
                 ELSE c
        t == [result |-> IF p.err THEN remoteErr ELSE updated,
              primChain |-> r.primChain, baseTarget |-> r.baseTarget,
              deadline |-> r.deadline]
        replaced(v) == /\ ~p.err
                       /\ r.pc = "fresh"
                       /\ inflight[v].pc \in {"wait", "locked"}
                       /\ inflight[v].primChain = r.primChain
                       /\ inflight[v].ip = r.ip
    IN /\ r.pc \in {"fresh", "locked"}
       /\ resp \in Answers(r.primChain)
       /\ primc' = IF r.primChain THEN after ELSE primc
       /\ secc' = IF r.primChain THEN secc ELSE after
       /\ primBest' = IF r.primChain /\ ~p.err THEN r.deadline ELSE primBest
       /\ secBest' = IF ~r.primChain /\ ~p.err THEN r.deadline ELSE secBest
       /\ liarsCache' = IF p.marked THEN SetDefault(liarsCache, r.ip, TRUE)
                        ELSE liarsCache
       /\ admitted' = Held(Admit(admitted, r.ip, r.round, t), primc', secc')
       /\ inflight' = [v \in Workers |->
                          IF v = w THEN Idle
                          ELSE IF replaced(v) THEN [inflight[v] EXCEPT !.held = FALSE]
                          ELSE inflight[v]]
       /\ out' = Answered(r.round, t.result, r.stage, p.marked,
                          IF p.via = "push" THEN "none" ELSE resp.kind)
       /\ UNCHANGED <<auxVars, cfg, phase, chainVars, miVars, wsVars, nOps>>

\* configurations with two pull upstreams
ConcConfigs ==
    { Config(TRUE, FALSE, FALSE, 1, FALSE, TRUE, FALSE),
      Config(TRUE, FALSE, FALSE, 2, FALSE, FALSE, TRUE) }

InitConc == Boot(ConcConfigs)

NextConc ==
    \/ InitialRefresh
    \/ RefreshTick
    \/ \E w \in Workers, ip \in IPs, round \in RoundsOf(ConcAccounts) :
          Arrive(w, ip, round)
    \/ \E w \in Workers : Lock(w)
    \/ \E w \in Workers, resp \in Responses : Forwarded(w, resp)

SpecConc == InitConc /\ [][NextConc]_vars

(* --------- the answer of requestHandler, written after the return ------ *)

\* requestHandler writes the notUpdated answer after tryUpdateRound has
\* returned, from chain scalars it reads again; the refresher can run in
\* between.  tryUpdateRound is one step here (Returned) and the write of
\* the answer another (Reply).

\* tryUpdateRound returns to requestHandler
Returned(ip, round) ==
    /\ phase = "serving"
    /\ inflight[1] = Idle
    /\ nOps < MaxOps
    /\ nOps' = nOps + 1
    /\ \E resp \in ResponseChoices(round), victim \in VictimChoices(ip, round) :
          LET t == tryUpdateRound(ip, round, resp, victim)
          IN /\ primc' = t.primc
             /\ secc' = t.secc
             /\ primBest' = t.primBest
             /\ secBest' = t.secBest
             /\ liarsCache' = IF t.marked
                              THEN SetDefault(liarsCache, ip, TRUE)
                              ELSE liarsCache
             /\ admitted' = Held(Admit(admitted, ip, round, t), t.primc, t.secc)
             /\ inflight' =
                   IF t.result = notUpdated
                   THEN [inflight EXCEPT ![1] =
                            [pc |-> "reply", ip |-> ip, round |-> round,
                             primChain |-> t.primChain, baseTarget |-> t.baseTarget,
                             deadline |-> t.deadline, held |-> FALSE,
                             stage |-> t.stage]]
                   ELSE inflight
             /\ out' = [op |-> "returned", result |-> t.result, stage |-> t.stage]
    /\ UNCHANGED <<auxVars, cfg, phase, chainVars, miVars, wsVars>>

\* requestHandler, case notUpdated: the deadline is computed and written
Reply ==
    LET r == inflight[1]
    IN /\ r.pc = "reply"
       /\ inflight' = [inflight EXCEPT ![1] = Idle]
       /\ out' = [op |-> "reply", result |-> notUpdated, stage |-> r.stage,
                  deadline |-> r.deadline, written |-> Written(r.round)]
       /\ UNCHANGED <<auxVars, cfg, phase, chainVars, miVars, primBest, secBest,
                      cacheVars, wsVars, admitted, nOps>>

NextReply ==
    \/ InitialRefresh
    \/ RefreshTick
    \/ \E i \in MiningInfos : onTextMessage(i[1], i[2])
    \/ \E ip \in IPs, round \in Rounds : Returned(ip, round)
    \/ Reply

SpecReply == Init /\ [][NextReply]_vars

(* ------------------------------ properties ---------------------------- *)

\* the ticks a refresh takes the clock forward: none at boot, one after
Elapsed == IF phase = "boot" THEN 0 ELSE 1

\* every input tryUpdateRound can meet in the current state: the sender, the
\* round, the upstream's answer and the round the eviction loop meets first
Submissions ==
    UNION { { [ip |-> ip, round |-> round, resp |-> resp, victim |-> victim] :
                resp \in Responses, victim \in VictimChoices(ip, round) } :
            ip \in IPs, round \in Rounds }

\* what tryUpdateRound does with a submission
Try(s) == tryUpdateRound(s.ip, s.round, s.resp, s.victim)

\* the accounts with a round in a bucket
AccountsOf(bucket) == {r.AccountID : r \in bucket}

\* C1: in every reachable state, however submitNonce requests and refresher
\* ticks interleave, every IPBucket held in the primary or in the secondary
\* cache contains at most minersPerIP account entries.
C1_BucketWithinMinersPerIP ==
    /\ cfg.minersPerIP >= 1
    /\ \A ip \in DOMAIN primc : Cardinality(AccountsOf(primc[ip].item)) <= cfg.minersPerIP
    /\ \A ip \in DOMAIN secc : Cardinality(AccountsOf(secc[ip].item)) <= cfg.minersPerIP

\* a request for a new account waits for the lock of a bucket with one free
\* slot, while the request of another new account holds the lock and is
\* about to fill the slot
C1_Witness ==
    \E w \in Workers, v \in Workers :
        /\ inflight[w].pc = "wait"
        /\ Locked(w)
        /\ inflight[v].pc = "locked"
        /\ inflight[v].stage = "add"
        /\ inflight[v].held
        /\ inflight[v].ip = inflight[w].ip
        /\ inflight[v].primChain = inflight[w].primChain
        /\ inflight[v].round.AccountID # inflight[w].round.AccountID
        /\ LET c == IF inflight[v].primChain THEN primc ELSE secc
               bucket == c[inflight[v].ip].item
           IN /\ Cardinality(AccountsOf(bucket)) = cfg.minersPerIP - 1
              /\ inflight[w].round.AccountID \notin AccountsOf(bucket)

C3_NewBlockResetsBestKeepsCache ==
    [][ out'.op = "refresh" =>
          /\ ( /\ out'.prim # "none"
               /\ curPrimaryMiningInfo.valid
               /\ curPrimaryMiningInfo'.Height > curPrimaryMiningInfo.Height )
             => ( primBest' = maxU64 /\ primc' = Aged(primc, Elapsed) )
          /\ ( /\ out'.sec # "none"
               /\ curSecondaryMiningInfo.valid
               /\ curSecondaryMiningInfo'.Height > curSecondaryMiningInfo.Height )
             => ( secBest' = maxU64 /\ secc' = Aged(secc, Elapsed) ) ]_vars

\* a new primary block has been published over a lower one while the
\* primary cache held a bucket, and the bucket is still held
C3_Witness ==
    /\ out.op = "refresh"
    /\ out.prim = "new"
    /\ out.prev = "lower"
    /\ primc # EmptyCache
    /\ primBest = maxU64

\* next is a fork of prev: a lower height, or the same height under another
\* base target
ForkOf(prev, next) ==
    /\ prev.valid
    /\ next.valid
    /\ \/ next.Height < prev.Height
       \/ next.Height = prev.Height /\ next.BaseTarget # prev.BaseTarget

\* C4: a refresh that publishes for a chain a mining info (the zeroed
\* secondary mining info included) which is a fork of the one published
\* before for that chain flushes that chain's IP cache.
C4_ForkFlushesCache ==
    [][ out'.op = "refresh" =>
          /\ ForkOf(curPrimaryMiningInfo, curPrimaryMiningInfo') => primc' = EmptyCache
          /\ ForkOf(curSecondaryMiningInfo, curSecondaryMiningInfo') => secc' = EmptyCache
      ]_vars

\* C4, the forks a chain's upstream reports: a refresh that publishes a
\* fetched mining info which is a fork of the chain's previous one flushes
\* that chain's IP cache.
C4_ReportedForkFlushesCache ==
    [][ out'.op = "refresh" =>
          /\ ( out'.prim # "none" /\ ForkOf(curPrimaryMiningInfo, curPrimaryMiningInfo') )
             => primc' = EmptyCache
          /\ ( out'.sec # "none" /\ ForkOf(curSecondaryMiningInfo, curSecondaryMiningInfo') )
             => secc' = EmptyCache ]_vars

\* the primary has preempted a scanning secondary, whose mining info is
\* zeroed while the secondary cache keeps its buckets
C4_ResetKeepsCache ==
    /\ out.op = "refresh"
    /\ out.reset
    /\ curSecondaryMiningInfo = ResetMiningInfo
    /\ secc # EmptyCache

\* C5: a refresh that handles a primary transition leaves the secondary IP
\* cache as it is, and one that handles a secondary transition leaves the
\* primary IP cache as it is, but for the buckets that expire by the tick.
C5_TransitionKeepsOtherCache ==
    [][ out'.op = "refresh" =>
          /\ out'.prim # "none" => secc' = Aged(secc, Elapsed)
          /\ out'.sec # "none" => primc' = Aged(primc, Elapsed) ]_vars

\* a primary fork has been handled while the secondary cache held a bucket,
\* and the bucket is still held
C5_Witness ==
    /\ out.op = "refresh"
    /\ out.prim \in {"forkback", "forkbt"}
    /\ primc = EmptyCache
    /\ secc # EmptyCache

\* the server handles requests once the initial refresh has succeeded
Serving == phase = "serving"

\* C6 as stated: where currentPrimChain = lastPrimChain, every submitNonce
\* whose height equals lastHeight returns wrongHeight and is not forwarded.
C6_LastHeightRejected ==
    (Serving /\ currentPrimChain = lastPrimChain) =>
        \A s \in Submissions :
            s.round.Height = lastHeight =>
                Try(s).result = wrongHeight /\ Try(s).forwards = 0

\* C6: where currentPrimChain = lastPrimChain, every submitNonce whose
\* height equals lastHeight and differs from currentHeight returns
\* wrongHeight and is not forwarded, and changes nothing.
C6_StaleLastHeightRejected ==
    (Serving /\ currentPrimChain = lastPrimChain) =>
        \A s \in Submissions :
            (s.round.Height = lastHeight /\ s.round.Height # currentHeight) =>
                /\ Try(s).result = wrongHeight
                /\ Try(s).forwards = 0
                /\ Try(s).primc = primc
                /\ Try(s).secc = secc

\* a submission at lastHeight, which is not the current height, has been
\* answered wrongHeight while both chain flags were equal
C6_Witness ==
    /\ out.op = "submit"
    /\ currentPrimChain = lastPrimChain
    /\ out.Height = lastHeight
    /\ out.Height # currentHeight
    /\ out.result = wrongHeight

\* C7: where currentPrimChain # lastPrimChain, a submitNonce whose height
\* equals lastHeight and differs from currentHeight is not rejected as
\* wrongHeight.  From an ip marked as a liar it is not evaluated; from any
\* other ip its deadline is adjusted with lastBaseTarget and filtered
\* against the TDL and the best deadline of the chain lastPrimChain names,
\* and a deadline that passes is looked up in that chain's cache and
\* forwarded once to that chain's upstream.
C7_BoundToLastChain ==
    (Serving /\ currentPrimChain # lastPrimChain) =>
        \A s \in Submissions :
            (s.round.Height = lastHeight /\ s.round.Height # currentHeight) =>
                LET t == Try(s)
                    d == IF s.round.Adjusted THEN s.round.Deadline
                         ELSE s.round.Deadline \div lastBaseTarget
                    tdl == IF lastPrimChain THEN primTDL ELSE secTDL
                    best == IF lastPrimChain THEN primBest ELSE secBest
                    ignoreWorse == IF lastPrimChain
                                   THEN cfg.primaryIgnoreWorseDeadlines
                                   ELSE cfg.secondaryIgnoreWorseDeadlines
                    c == IF lastPrimChain THEN primc ELSE secc
                IN /\ t.result # wrongHeight
                   /\ s.ip \in DOMAIN liarsCache => t.stage = "liar"
                   /\ s.ip \notin DOMAIN liarsCache =>
                        /\ t.stage # "liar"
                        /\ d > tdl => (t.stage = "filtered" /\ t.result = notUpdated)
                        /\ (d <= tdl /\ ignoreWorse /\ d > best) =>
                              (t.stage = "discarded" /\ t.result = notUpdated)
                        /\ (d <= tdl /\ ~(ignoreWorse /\ d > best)) =>
                              /\ t.primChain = lastPrimChain
                              /\ t.baseTarget = lastBaseTarget
                              /\ t.deadline = d
                              /\ t.stage = "fresh" <=> s.ip \notin DOMAIN c
                              /\ IF lastPrimChain THEN t.secc = secc ELSE t.primc = primc
                              /\ t.forwards = 1 =>
                                   t.via = IF IsPush(lastPrimChain) THEN "push"
                                           ELSE IF lastPrimChain THEN "primarySubmitURL"
                                           ELSE "secondarySubmitURL"
                              /\ t.stage \in {"fresh", "add", "evict", "replace"}
                                   => t.forwards = 1

\* after a primary-to-secondary transition a submission at lastHeight, which
\* is not the current height, has been admitted to the primary chain
C7_Witness ==
    /\ out.op = "submit"
    /\ lastPrimChain
    /\ ~currentPrimChain
    /\ out.Height = lastHeight
    /\ out.Height # currentHeight
    /\ out.result = updated
    /\ primc # EmptyCache

\* a round of a height that is neither the current height nor, with the
\* chain flags different, the last height
OutDated(round) ==
    /\ round.Height # currentHeight
    /\ currentPrimChain = lastPrimChain \/ round.Height # lastHeight

\* C8 as stated: while an ip's LiarMark lives, every submitNonce from that
\* ip returns notUpdated and is not forwarded.
C8_MarkedReturnsNotUpdated ==
    Serving =>
        \A s \in Submissions :
            s.ip \in DOMAIN liarsCache =>
                LET t == Try(s) IN t.result = notUpdated /\ t.forwards = 0

\* a LiarMark lives from the step that sets it through the next
\* defaultCacheExpiration ticks and is gone at the tick after; no other step
\* touches it
MarkLifetime ==
    \A ip \in IPs :
        /\ (ip \notin DOMAIN liarsCache /\ ip \in DOMAIN liarsCache') =>
              (out'.op = "submit" /\ liarsCache'[ip].ttl = defaultCacheExpiration)
        /\ ip \in DOMAIN liarsCache =>
              IF out'.op = "refresh" /\ Elapsed = 1
              THEN IF liarsCache[ip].ttl >= 1
                   THEN ip \in DOMAIN liarsCache'
                        /\ liarsCache'[ip].ttl = liarsCache[ip].ttl - 1
                   ELSE ip \notin DOMAIN liarsCache'
              ELSE ip \in DOMAIN liarsCache' /\ liarsCache'[ip] = liarsCache[ip]

\* C8: a LiarMark set at time t lives until t + 15 minutes; while it lives
\* no submitNonce from the ip is forwarded or changes a cache or a best
\* deadline, and each returns notUpdated, or wrongHeight when its height is
\* out-dated; once the mark is gone no submission stops at the liar gate.
C8_MarkedNeverForwarded ==
    /\ [](Serving =>
            \A s \in Submissions :
                LET t == Try(s)
                IN IF s.ip \in DOMAIN liarsCache
                   THEN /\ t.forwards = 0
                        /\ t.result = IF OutDated(s.round) THEN wrongHeight ELSE notUpdated
                        /\ t.primc = primc /\ t.secc = secc
                        /\ t.primBest = primBest /\ t.secBest = secBest
                   ELSE t.stage # "liar")
    /\ [][MarkLifetime]_vars

\* a submission of a current height from a marked ip has been stopped at
\* the liar gate defaultCacheExpiration ticks after the mark was set
C8_Witness ==
    /\ out.op = "submit"
    /\ out.stage = "liar"
    /\ out.result = notUpdated
    /\ out.Height = currentHeight
    /\ \E ip \in DOMAIN liarsCache : liarsCache[ip].ttl = 0

\* C9 as stated: with the lie detector on and a pull upstream, a
\* submission marks its ip as a liar if and only if its forward succeeded and
\* the response carries a deadline that differs from the adjusted deadline
\* d; and a submission forwarded by push never marks.
C9_MarkIffDeadlineDiffers ==
    (Serving /\ cfg.lieDetector) =>
        \A s \in Submissions :
            LET t == Try(s)
            IN IF t.via = "push" THEN ~t.marked
               ELSE t.marked <=>
                       /\ t.forwards = 1
                       /\ s.resp.kind = "deadline"
                       /\ s.resp.Deadline # t.deadline

\* a response that carries no deadline has marked the ip as a liar
C9_MarkedWithoutDeadline ==
    /\ out.op = "submit"
    /\ out.resp = "nodeadline"
    /\ out.marked
    /\ liarsCache # EmptyCache

\* the stored round of an account in the bucket of an ip, as a set of at
\* most one round
Entry(c, ip, accountID) ==
    IF ip \in DOMAIN c THEN {r \in c[ip].item : r.AccountID = accountID} ELSE {}

\* C10: a submitNonce whose forward fails returns remoteErr, and one that
\* returns remoteErr was forwarded exactly once, has left the account's
\* entry in the bucket of its ip as it was in both caches and has left both
\* best deadlines as they were.
C10_FailedForwardStoresNothing ==
    Serving =>
        \A s \in Submissions :
            LET t == Try(s)
            IN /\ t.forwards \in {0, 1}
               /\ ( /\ t.forwards = 1
                    /\ t.via # "push"
                    /\ s.resp.kind = "neterr" ) => t.result = remoteErr
               /\ t.result = remoteErr =>
                    /\ t.forwards = 1
                    /\ Entry(t.primc, s.ip, s.round.AccountID)
                          = Entry(primc, s.ip, s.round.AccountID)
                    /\ Entry(t.secc, s.ip, s.round.AccountID)
                          = Entry(secc, s.ip, s.round.AccountID)
                    /\ DOMAIN t.primc = DOMAIN primc
                    /\ DOMAIN t.secc = DOMAIN secc
                    /\ t.primBest = primBest
                    /\ t.secBest = secBest

\* a better round for an account with a stored round has met a failing
\* upstream and has been answered remoteErr
C10_Witness ==
    /\ out.op = "submit"
    /\ out.resp = "neterr"
    /\ out.result = remoteErr
    /\ out.stage = "replace"

(* ------------------------- the chain scalars --------------------------- *)

\* C11: in every state after the first refresh, whatever mining infos the
\* primary and the secondary upstream report, currentHeight >= lastHeight.
C11_CurrentHeightNotBelowLast == Serving => currentHeight >= lastHeight

(* ------------------------- the best deadlines -------------------------- *)

\* C12: for each chain the best-deadline counter equals the max-uint64
\* sentinel right after every transition of that chain, and no other step
\* (an admitted submission, with ignoreWorseDeadlines on or off) increases it.
C12_BestNeverIncreasesBetweenTransitions ==
    [][ /\ IF out'.op = "refresh" /\ out'.prim # "none"
           THEN primBest' = maxU64
           ELSE primBest' <= primBest
        /\ IF out'.op = "refresh" /\ out'.sec # "none"
           THEN secBest' = maxU64
           ELSE secBest' <= secBest ]_vars

(* ------------------------------ startup -------------------------------- *)

\* C13: in every state in which the listener serves requests, the mining
\* info pointer of the chain that currentPrimChain selects is non-nil, so
\* getMiningInfo never dereferences an unpublished mining info.
C13_SelectedMiningInfoPublished ==
    Serving => IF currentPrimChain
               THEN curPrimaryMiningInfo.valid
               ELSE curSecondaryMiningInfo.valid

\* C14: the listener starts exactly when the initial refresh published a
\* mining info, the process exits when it obtained none, and a process that
\* has exited stays so.
C14_ListenerStartsOnlyAfterPublishing ==
    [][ /\ (phase = "boot" /\ out'.op = "refresh") =>
              /\ phase' \in {"serving", "exited"}
              /\ phase' = "serving" <=> (out'.prim # "none" \/ out'.sec # "none")
        /\ phase' = "serving" => (phase = "serving" \/ out'.op = "refresh")
        /\ phase = "exited" => phase' = "exited" ]_vars

(* ------------------------ the refresher's branches --------------------- *)

\* C19: a refresh that takes one of the three mutating secondary branches
\* ends with currentPrimChain = false and secBest = maxU64; if the outgoing
\* current chain was primary, last* hold its scalars and lastPrimChain is
\* true; and the secondary cache is flushed on the two fork branches only.
C19_SecondaryBranchBookkeeping ==
    [][ (out'.op = "refresh" /\ out'.sec # "none") =>
          /\ currentPrimChain' = FALSE
          /\ secBest' = maxU64
          /\ currentPrimChain =>
                /\ lastHeight' = currentHeight
                /\ lastBaseTarget' = currentBaseTarget
                /\ lastPrimChain' = TRUE
          /\ IF out'.sec \in {"forkback", "forkbt"}
             THEN secc' = EmptyCache
             ELSE secc' = Aged(secc, Elapsed) ]_vars

\* C20: a refresh that takes one of the three mutating primary branches
\* ends with currentPrimChain = true and the current scalars equal to the
\* new primary mining info; when the outgoing current chain was secondary,
\* last* hold its scalars and lastPrimChain is false, and when it was
\* primary, last* are left as they were.
C20_PrimaryBranchBookkeeping ==
    [][ (out'.op = "refresh" /\ out'.prim # "none") =>
          /\ currentPrimChain' = TRUE
          /\ curPrimaryMiningInfo'.valid
          /\ curPrimaryMiningInfo'.Age = 0
          /\ currentHeight' = curPrimaryMiningInfo'.Height
          /\ currentBaseTarget' = curPrimaryMiningInfo'.BaseTarget
          /\ IF ~currentPrimChain
             THEN /\ lastHeight' = currentHeight
                  /\ lastBaseTarget' = currentBaseTarget
                  /\ lastPrimChain' = FALSE
             ELSE UNCHANGED <<lastHeight, lastBaseTarget, lastPrimChain>> ]_vars

\* a primary fork has been published while the secondary chain was the
\* current one, and its scalars are the last ones now
C20_Witness ==
    /\ out.op = "refresh"
    /\ out.prim \in {"forkback", "forkbt"}
    /\ ~out.outgoing
    /\ currentPrimChain
    /\ ~lastPrimChain
    /\ lastHeight = 2

(* ---------------------- the locally written answers -------------------- *)

\* C17: the deadline requestHandler writes in its notUpdated answer equals
\* the adjusted deadline tryUpdateRound computed for the submission with
\* the base target of the chain it bound the submission to, however the
\* request interleaves with the refresher.
C17_WrittenDeadlineIsBoundDeadline ==
    (out.op = "reply" /\ out.stage \in {"filtered", "discarded", "ignored"}) =>
        out.written = out.deadline

(* ------------- the query string sent to a pull upstream ---------------- *)

\* the rounds on their way to a pull upstream: what parseRound returns
QueryRounds ==
    [AccountID : Accounts, Height : {1}, Deadline : Deadlines, Nonce : {7},
     Passphrase : Passphrases, Adjusted : BOOLEAN]

\* a round to proxy, the chain it is bound to and the configured
\* passphrases of the two chains; parsed is history, the round as
\* parseRound returned it
Queries ==
    { [sent |-> FALSE, round |-> round, parsed |-> round, primary |-> primary,
       primaryPassphrase |-> pp, secondaryPassphrase |-> sp, keys |-> {}] :
      round \in QueryRounds, primary \in BOOLEAN,
      pp \in Passphrases, sp \in Passphrases }

\* query.Values(round): one parameter per field of minerRound, named by
\* its url tag, or by the field's name where it has none
Values(round) ==
    {"accountId", "blockheight", "deadline", "nonce", "secretPhrase", "Adjusted"}

\* a Del that deletes nothing
DelNothing(v, key) == v

\* url.Values.Del
Del(v, key) == v \ {key}

\* a submitter that sends the miner's own passphrase whatever is configured
MinersOwn(q) == q.round.Passphrase

\* a submitter that takes the configured passphrase even when it is empty
AlwaysConfigured(q) ==
    IF q.primary THEN q.primaryPassphrase ELSE q.secondaryPassphrase

\* the passphrase overwrites: the configured passphrase of the chain, if
\* there is one, replaces the round's
Overwritten(q) ==
    IF q.primary /\ q.primaryPassphrase # "" THEN q.primaryPassphrase
    ELSE IF ~q.primary /\ q.secondaryPassphrase # "" THEN q.secondaryPassphrase
    ELSE q.round.Passphrase

\* the parameters of the submitNonce query proxySubmitRound sends
QueryKeys(q) ==
    LET v == Values(q.round)
        unadj == IF q.round.Adjusted THEN Del(v, "deadline") ELSE v
        pool == IF Overwritten(q) = ""
                THEN Del(unadj, "secretPhrase")
                ELSE Del(unadj, "deadline")
    IN Del(pool, "Adjusted")

\* proxySubmitRound to a pull upstream, up to the request it sends
SendQuery ==
    /\ ~query.sent
    /\ query' = [query EXCEPT !.sent = TRUE,
                              !.round.Passphrase = Overwritten(query),
                              !.keys = QueryKeys(query)]
    /\ UNCHANGED <<clientVars, coreVars, pushVars, connVars>>

\* the next round is bound to a chain and proxied
NewQuery ==
    /\ query.sent
    /\ \E round \in QueryRounds, primary \in BOOLEAN :
          query' = [query EXCEPT !.sent = FALSE, !.round = round,
                                 !.parsed = round,
                                 !.primary = primary, !.keys = {}]
    /\ UNCHANGED <<clientVars, coreVars, pushVars, connVars>>

InitQuery ==
    /\ BootCore({Config(TRUE, FALSE, FALSE, 1, FALSE, FALSE, FALSE)})
    /\ PushOff
    /\ NoClients
    /\ query \in Queries

NextQuery ==
    \/ SendQuery
    \/ NewQuery

SpecQuery == InitQuery /\ [][NextQuery]_vars

\* C16 as stated: the query sent to a pull upstream has no deadline
\* parameter when Adjusted is true and has one when Adjusted is false,
\* whatever the miner's and the configured passphrases are.
C16_DeadlineSentIffUnadjusted ==
    query.sent => (("deadline" \in query.keys) <=> ~query.round.Adjusted)

\* C16: the query sent to a pull upstream has a deadline parameter exactly
\* when Adjusted is false and the passphrase in effect (the configured one
\* of the chain, else the miner's) is empty; it has a secretPhrase
\* parameter exactly when that passphrase is not empty, and never an
\* Adjusted parameter.
C16_DeadlineSentIffUnadjustedPool ==
    query.sent =>
        /\ ("deadline" \in query.keys)
              <=> (~query.round.Adjusted /\ query.round.Passphrase = "")
        /\ ("secretPhrase" \in query.keys) <=> query.round.Passphrase # ""
        /\ "Adjusted" \notin query.keys
        /\ {"accountId", "blockheight", "nonce"} \subseteq query.keys

\* an unadjusted round of a miner without passphrase has been sent to a
\* chain with a configured passphrase, without its deadline
C16_Witness ==
    /\ query.sent
    /\ ~query.round.Adjusted
    /\ query.primary
    /\ query.primaryPassphrase = "secret"
    /\ query.round.Passphrase = "secret"
    /\ "deadline" \notin query.keys

(* ----------------- the push transport's connection --------------------- *)

\* Time is counted in whole seconds, and a stamp is kept as the time since
\* it was stored.  The heartbeat loop answers a tick within the second it
\* fires in, the write of its frame included.

\* a stamp or a silence one second later
Later(age) == IF age < MaxSilence THEN age + 1 ELSE MaxSilence

\* subscribe has returned nil: the handshake is written, lastHeartBeat is
\* stamped and the heartbeat loop runs
Established == wpc["subscribe"] = "done"

\* a sendMu that never makes a writer wait
SendMuNeverHeld(p) == FALSE

\* c.sendMu.Lock() blocks the writer
SendMuHeld(p) == sendMu # "free"

\* a heartbeat check that gives up when the silence reaches the threshold
LostAtThreshold(age) == age >= threshold

\* int64(time.Now().Sub(ht.(time.Time)).Seconds()) > threshold
HeartbeatLost(age) == age > threshold

\* the ticker's channel holds a tick
TickDue == ticker.state = "running" /\ ticker.age = frequency

\* Connect: Dial connects and calls the subscribe handler, and the message
\* handler goroutine starts
Dial ==
    /\ cfg.primaryws \/ cfg.secondaryws
    /\ wpc["subscribe"] = "off"
    /\ wpc' = [wpc EXCEPT !["subscribe"] = "lock1"]
    /\ UNCHANGED <<clientVars, coreVars, query, connVars, sendMu, receiveMu, ticker, lastHeartBeat,
                   silence, closes>>

\* subscribe takes sendMu for one of its two handshake writes
SubscribeLock ==
    /\ wpc["subscribe"] \in {"lock1", "lock2"}
    /\ ~SendMuHeld("subscribe")
    /\ sendMu' = "subscribe"
    /\ wpc' = [wpc EXCEPT !["subscribe"] =
                  IF @ = "lock1" THEN "write1" ELSE "write2"]
    /\ UNCHANGED <<clientVars, coreVars, query, connVars, receiveMu, ticker, lastHeartBeat,
                   silence, closes>>

\* a handshake WriteMessage returns.  On an error subscribe returns with
\* sendMu locked; after the second write it stamps lastHeartBeat, starts
\* the ticker and the heartbeat loop, and returns nil
SubscribeWritten(ok) ==
    /\ wpc["subscribe"] \in {"write1", "write2"}
    /\ IF ~ok
       THEN /\ wpc' = [wpc EXCEPT !["subscribe"] = "failed"]
            /\ UNCHANGED <<sendMu, ticker, lastHeartBeat, silence>>
       ELSE IF wpc["subscribe"] = "write1"
       THEN /\ wpc' = [wpc EXCEPT !["subscribe"] = "lock2"]
            /\ sendMu' = "free"
            /\ UNCHANGED <<ticker, lastHeartBeat, silence>>
       ELSE /\ wpc' = [wpc EXCEPT !["subscribe"] = "done",
                                  !["heartbeat"] = "select"]
            /\ sendMu' = "free"
            /\ lastHeartBeat' = 0
            /\ silence' = 0
            /\ ticker' = [state |-> "running", age |-> 0]
    /\ UNCHANGED <<clientVars, coreVars, query, connVars, receiveMu, closes>>

\* the heartbeat loop receives a tick: it checks the last heartbeat, and
\* on a lost one stops the ticker, stamps lastHeartBeat and closes the
\* connection; then it goes on to send its own heartbeat
Tick ==
    /\ wpc["heartbeat"] = "select"
    /\ TickDue
    /\ IF HeartbeatLost(lastHeartBeat)
       THEN /\ ticker' = [state |-> "stopped", age |-> 0]
            /\ lastHeartBeat' = 0
            /\ closes' = closes + 1
       ELSE /\ ticker' = [ticker EXCEPT !.age = 0]
            /\ UNCHANGED <<lastHeartBeat, closes>>
    /\ wpc' = [wpc EXCEPT !["heartbeat"] = "lock"]
    /\ UNCHANGED <<clientVars, coreVars, query, connVars, sendMu, receiveMu, silence>>

\* the heartbeat loop takes sendMu
HeartbeatLock ==
    /\ wpc["heartbeat"] = "lock"
    /\ ~SendMuHeld("heartbeat")
    /\ sendMu' = "heartbeat"
    /\ wpc' = [wpc EXCEPT !["heartbeat"] = "write"]
    /\ UNCHANGED <<clientVars, coreVars, query, connVars, receiveMu, ticker, lastHeartBeat,
                   silence, closes>>

\* the heartbeat's WriteMessage returns, its result unread
HeartbeatWritten ==
    /\ wpc["heartbeat"] = "write"
    /\ sendMu' = "free"
    /\ wpc' = [wpc EXCEPT !["heartbeat"] = "select"]
    /\ UNCHANGED <<clientVars, coreVars, query, connVars, receiveMu, ticker, lastHeartBeat,
                   silence, closes>>

\* an HTTP worker calls websocketAPI.submitNonce; of the workers free to,
\* which are all alike, the first one does
SubmitCall(p) ==
    /\ wpc[p] = "off"
    /\ \A o \in Submitters : (o = "submitNonce1" /\ p # o) => wpc[o] # "off"
    /\ wpc' = [wpc EXCEPT ![p] = "lock"]
    /\ UNCHANGED <<clientVars, coreVars, query, connVars, sendMu, receiveMu, ticker, lastHeartBeat,
                   silence, closes>>

\* websocketAPI.submitNonce takes sendMu
SubmitLock(p) ==
    /\ wpc[p] = "lock"
    /\ ~SendMuHeld(p)
    /\ sendMu' = p
    /\ wpc' = [wpc EXCEPT ![p] = "write"]
    /\ UNCHANGED <<clientVars, coreVars, query, connVars, receiveMu, ticker, lastHeartBeat,
                   silence, closes>>

\* the WriteMessage of websocketAPI.submitNonce returns
SubmitWritten(p) ==
    /\ wpc[p] = "write"
    /\ sendMu' = "free"
    /\ wpc' = [wpc EXCEPT ![p] = "off"]
    /\ UNCHANGED <<clientVars, coreVars, query, connVars, receiveMu, ticker, lastHeartBeat,
                   silence, closes>>

\* the message handler takes receiveMu and waits in ReadMessage
ReadLock ==
    /\ wpc["subscribe"] # "off"
    /\ ~receiveMu
    /\ receiveMu' = TRUE
    /\ UNCHANGED <<clientVars, coreVars, query, connVars, wpc, sendMu, ticker, lastHeartBeat,
                   silence, closes>>

\* ReadMessage returns a text frame of the open connection and
\* onTextMessage handles it: a poolmgr.heartbeat stamps lastHeartBeat, a
\* command it does not know changes nothing
Receive(cmd) ==
    /\ receiveMu
    /\ closes = 0
    /\ receiveMu' = FALSE
    /\ IF cmd = "poolmgr.heartbeat"
       THEN lastHeartBeat' = 0 /\ silence' = 0
       ELSE UNCHANGED <<lastHeartBeat, silence>>
    /\ UNCHANGED <<clientVars, coreVars, query, connVars, wpc, sendMu, ticker, closes>>

\* a second passes on the established connection
Second ==
    /\ Established
    /\ wpc["heartbeat"] = "select"
    /\ ~TickDue
    /\ ticker' = IF ticker.state = "running"
                 THEN [ticker EXCEPT !.age = @ + 1] ELSE ticker
    /\ lastHeartBeat' = Later(lastHeartBeat)
    /\ silence' = Later(silence)
    /\ UNCHANGED <<clientVars, coreVars, query, connVars, wpc, sendMu, receiveMu, closes>>

InitPush == Boot({Config(TRUE, TRUE, FALSE, 1, TRUE, FALSE, TRUE)})

NextPush ==
    \/ Dial
    \/ SubscribeLock
    \/ \E ok \in BOOLEAN : SubscribeWritten(ok)
    \/ Tick
    \/ HeartbeatLock
    \/ HeartbeatWritten
    \/ \E p \in Submitters : SubmitCall(p)
    \/ \E p \in Submitters : SubmitLock(p)
    \/ \E p \in Submitters : SubmitWritten(p)
    \/ ReadLock
    \/ \E cmd \in {"poolmgr.heartbeat", "poolmgr.unknown"} : Receive(cmd)
    \/ Second

SpecPush == InitPush /\ [][NextPush]_vars

\* the heartbeat loop has answered every tick so far
Settled == wpc["heartbeat"] = "select" /\ ~TickDue

\* C15 as stated: on an established connection, once no heartbeat frame
\* has come for 31 seconds one Close has been issued, and none while the
\* silence is 29 seconds or less.
C15_ClosedAfter31Seconds ==
    (Established /\ Settled) =>
        /\ silence >= threshold + 1 => closes = 1
        /\ silence <= threshold - 1 => closes = 0

\* C15: on an established connection at most one Close is issued; none
\* while the silence is 30 seconds or less; one once the silence is longer
\* than 35 seconds; and it is issued at a tick that finds a silence of 31
\* to 35 seconds.
C15_ClosedAtFirstTickPastThreshold ==
    /\ [](Established =>
             /\ closes <= 1
             /\ silence <= threshold => closes = 0
             /\ silence > threshold + frequency => closes = 1)
    /\ [][closes' # closes =>
             /\ closes' = closes + 1
             /\ TickDue
             /\ silence > threshold
             /\ silence <= threshold + frequency
             /\ ticker'.state = "stopped"]_vars

\* the connection has been closed once, and the silence has gone on to 36
\* seconds
C15_Witness ==
    /\ Established
    /\ closes = 1
    /\ silence = threshold + frequency + 1
    /\ ticker.state = "stopped"

\* the writers inside WriteMessage
Writing == {p \in Writers : wpc[p] \in {"write", "write1", "write2"}}

\* C18: at most one write to the websocket connection is in progress at
\* any time, among the handshake writes of subscribe, the heartbeat send
\* and submitNonce of the HTTP workers; the one writing holds sendMu.
C18_OneWriterAtATime ==
    /\ Cardinality(Writing) <= 1
    /\ \A p \in Writing : sendMu = p

\* an HTTP worker writes its nonce while the heartbeat loop and another
\* worker wait for sendMu and the message handler is inside ReadMessage
C18_Witness ==
    /\ Writing = {"submitNonce1"}
    /\ wpc["heartbeat"] = "lock"
    /\ wpc["submitNonce2"] = "lock"
    /\ receiveMu

(* --------------------- rescheduling the secondary round ---------------- *)

\* C21: a primary transition publishes the zeroed secondary mining info when
\* the secondary round is mid-scan (its age is below scanTime), and leaves
\* the secondary mining info as it was when that round is not mid-scan or
\* no secondary mining info was ever published.
C21_PrimaryTransitionReschedulesSecondary ==
    [][ (out'.op = "refresh" /\ out'.prim # "none") =>
          LET curSecMi == Older(curSecondaryMiningInfo, Elapsed)
          IN IF curSecMi.valid /\ curSecMi.Age < scanTime
             THEN /\ curSecondaryMiningInfo'.valid
                  /\ curSecondaryMiningInfo'.Height = 0
                  /\ curSecondaryMiningInfo'.BaseTarget = 0
                  /\ curSecondaryMiningInfo'.Age >= scanTime
             ELSE curSecondaryMiningInfo' = curSecMi ]_vars

\* a primary transition has interrupted a secondary round that was being
\* scanned, and the secondary mining info is the zeroed one
C21_Witness ==
    /\ out.op = "refresh"
    /\ out.prim # "none"
    /\ out.reset
    /\ out.outgoing = FALSE
    /\ curSecondaryMiningInfo = ResetMiningInfo

(* ------------------- the secondary step of a refresh ------------------- *)

\* C22: the current chain never switches from primary to secondary while
\* the primary round is being scanned: a refresh takes a secondary branch
\* only if a secondary upstream is configured, it took no primary branch
\* and the primary round is at least scanTime old; a refresh that takes no
\* secondary branch leaves secBest and the secondary cache as they were
\* and, unless it took a primary branch, the secondary mining info and the
\* current and last scalars too.
C22_SecondaryStepOnlyPastScanTime ==
    [][ LET curPrimMi == Older(curPrimaryMiningInfo, Elapsed)
            scanning == curPrimMi.valid /\ curPrimMi.Age < scanTime
        IN /\ (currentPrimChain /\ ~currentPrimChain') =>
                 (out'.op = "refresh" /\ out'.sec # "none" /\ ~scanning)
           /\ out'.op = "refresh" =>
                 /\ out'.sec # "none" =>
                       (cfg.secondary /\ out'.prim = "none" /\ ~scanning)
                 /\ out'.sec = "none" =>
                       /\ secBest' = secBest
                       /\ secc' = Aged(secc, Elapsed)
                       /\ out'.prim = "none" =>
                             /\ curSecondaryMiningInfo' =
                                   Older(curSecondaryMiningInfo, Elapsed)
                             /\ UNCHANGED chainVars ]_vars

\* the current chain has switched from primary to secondary, the primary
\* round being past its scan time
C22_Witness ==
    /\ out.op = "refresh"
    /\ out.sec # "none"
    /\ out.outgoing
    /\ ~currentPrimChain
    /\ curPrimaryMiningInfo.valid
    /\ curPrimaryMiningInfo.Age >= scanTime

(* ------------- admission with two pull upstreams, one at a time -------- *)

NextAdmit ==
    \/ InitialRefresh
    \/ RefreshTick
    \/ \E ip \in IPs, round \in Rounds : SubmitNonce(ip, round)

SpecAdmit == InitConc /\ [][NextAdmit]_vars

(* ------------------------ the deadline filters ------------------------- *)

\* C23: a submission that passes the height checks with an adjusted
\* deadline above the target deadline of the chain it is bound to returns
\* notUpdated, is not forwarded and changes no bucket; and no round a
\* bucket holds was admitted with an adjusted deadline above that ceiling.
C23_AboveTargetDeadlineNotUpdated ==
    /\ \A s \in Submissions :
          LET primChain == BoundPrimChain(s.round)
              d == Adjust(s.round, BoundBaseTarget(s.round))
              TDL == IF primChain THEN primTDL ELSE secTDL
          IN (Serving /\ ~HeightMismatch(s.round) /\ d > TDL) =>
                LET t == Try(s)
                IN /\ t.result = notUpdated
                   /\ t.forwards = 0
                   /\ t.primc = primc
                   /\ t.secc = secc
    /\ \A g \in admitted : g.Max <= (IF g.primChain THEN primTDL ELSE secTDL)

\* a submission bound to the primary chain has been turned down by the
\* deadlines filter while the primary cache held a bucket
C23_Witness ==
    /\ out.op = "submit"
    /\ out.stage = "filtered"
    /\ out.result = notUpdated
    /\ currentPrimChain
    /\ primc # EmptyCache

\* C24: with ignoreWorseDeadlines enabled for the chain a submission is
\* bound to, a submission that passes the height checks with an adjusted
\* deadline above that chain's best deadline returns notUpdated, is not
\* forwarded and changes no bucket; with the option disabled no submission
\* is turned down for the best deadline, whatever the counter holds.
C24_WorseThanBestNotUpdated ==
    \A s \in Submissions :
       LET primChain == BoundPrimChain(s.round)
           d == Adjust(s.round, BoundBaseTarget(s.round))
           best == IF primChain THEN primBest ELSE secBest
           enabled == IF primChain THEN cfg.primaryIgnoreWorseDeadlines
                      ELSE cfg.secondaryIgnoreWorseDeadlines
       IN (Serving /\ ~HeightMismatch(s.round)) =>
             /\ (enabled /\ d > best) =>
                   LET t == Try(s)
                   IN /\ t.result = notUpdated
                      /\ t.forwards = 0
                      /\ t.primc = primc
                      /\ t.secc = secc
             /\ ~enabled => Try(s).stage # "discarded"

\* a submission has been turned down for the best deadline of the primary
\* chain, which a better submission had set
C24_Witness ==
    /\ out.op = "submit"
    /\ out.stage = "discarded"
    /\ out.result = notUpdated
    /\ cfg.primaryIgnoreWorseDeadlines
    /\ currentPrimChain
    /\ primBest = 0
    /\ primc # EmptyCache

(* --------------------- the decisions under the lock -------------------- *)

\* whether tryUpdateRound reaches the lookup in the bucket the chain's
\* cache holds for the sender
ReachesBucket(s) ==
    LET primChain == BoundPrimChain(s.round)
        d == Adjust(s.round, BoundBaseTarget(s.round))
    IN /\ Serving
       /\ ~HeightMismatch(s.round)
       /\ ~IsLiar(s.ip)
       /\ ~Filtered(primChain, d)
       /\ ~Discarded(primChain, d)
       /\ Exists(IF primChain THEN primc ELSE secc, s.ip)

\* the bucket of the sender in the cache of the chain a submission is
\* bound to, in the caches pc and sc
BucketOf(s, pc, sc) ==
    LET c == IF BoundPrimChain(s.round) THEN pc ELSE sc
    IN c[s.ip].item

C26_StoredRoundComparison ==
    \A s \in Submissions :
       ReachesBucket(s) =>
          LET bucket == BucketOf(s, primc, secc)
              baseTarget == BoundBaseTarget(s.round)
              d == Adjust(s.round, baseTarget)
          IN \A existingRound \in bucket :
                existingRound.AccountID = s.round.AccountID =>
                   LET t == Try(s)
                       existingDeadline ==
                           IF existingRound.Adjusted
                           THEN existingRound.Deadline
                           ELSE existingRound.Deadline \div baseTarget
                   IN IF \/ existingRound.Height > s.round.Height
                         \/ /\ existingRound.Height = s.round.Height
                            /\ existingDeadline < d
                      THEN /\ t.result = notUpdated
                           /\ t.forwards = 0
                           /\ t.primc = primc
                           /\ t.secc = secc
                      ELSE /\ t.forwards = 1
                           /\ t.result \in {updated, remoteErr}
                           /\ BucketOf(s, t.primc, t.secc) =
                                 IF t.result = updated
                                 THEN (bucket \ {existingRound}) \cup {s.round}
                                 ELSE bucket

\* a submission has been turned down for the better round its account has
\* in the bucket
C26_Witness ==
    /\ out.op = "submit"
    /\ out.stage = "ignored"
    /\ out.result = notUpdated
    /\ \E ip \in DOMAIN primc : \E r \in primc[ip].item :
          r.Height = out.Height /\ Adjust(r, currentBaseTarget) = 0

(* ---------------------- the passphrase of a forward -------------------- *)

\* C27: the passphrase of a round proxied to a pull upstream is the chain's
\* configured passphrase when that is not empty and the miner's own
\* otherwise; when it is empty the query has no secretPhrase parameter,
\* when it is not the query has secretPhrase and no deadline; and the
\* query never has an Adjusted parameter.
C27_PassphraseInEffect ==
    [][ (~query.sent /\ query'.sent) =>
          LET configured == IF query.primary THEN query.primaryPassphrase
                            ELSE query.secondaryPassphrase
              passphrase == query'.round.Passphrase
          IN /\ passphrase = IF configured # "" THEN configured
                             ELSE query.round.Passphrase
             /\ passphrase = "" => "secretPhrase" \notin query'.keys
             /\ passphrase # "" =>
                   ("secretPhrase" \in query'.keys /\ "deadline" \notin query'.keys)
             /\ "Adjusted" \notin query'.keys ]_vars

\* a miner's own passphrase has been sent to the secondary chain, which has
\* none configured, while the primary chain has another
C27_Witness ==
    /\ query.sent
    /\ ~query.primary
    /\ query.primaryPassphrase = "secret"
    /\ query.secondaryPassphrase = ""
    /\ query.round.Passphrase = "wallet"
    /\ "secretPhrase" \in query.keys
    /\ "deadline" \notin query.keys

(* ---------------------- the fields of a parsed round ------------------- *)

\* C28 as stated: a round is immutable after parsing; the round proxied to
\* a pull upstream, which is the one a bucket stores afterwards, has every
\* field as parseRound returned it.
C28_RoundImmutableAfterParsing == query.sent => query.round = query.parsed

\* C28: a forward to a pull upstream leaves the account id, height, nonce,
\* deadline and adjusted flag of the round as parseRound returned them; it
\* changes the passphrase only when the chain has a configured passphrase,
\* and then to that one.
C28_OnlyPassphraseOverwritten ==
    query.sent =>
       LET configured == IF query.primary THEN query.primaryPassphrase
                         ELSE query.secondaryPassphrase
       IN /\ \A f \in {"AccountID", "Height", "Nonce", "Deadline", "Adjusted"} :
                query.round[f] = query.parsed[f]
          /\ query.round.Passphrase # query.parsed.Passphrase =>
                (configured # "" /\ query.round.Passphrase = configured)

\* the round of a miner with a passphrase of its own has been proxied with
\* the configured passphrase in its place
C28_Witness ==
    /\ query.sent
    /\ query.parsed.Passphrase = "wallet"
    /\ query.round.Passphrase = "secret"
    /\ query.round.Deadline = query.parsed.Deadline

(* ------------------ the heartbeat loops across reconnects -------------- *)

\* the ticker of the i-th heartbeat loop holds a tick
Due(i) == tickers[i].state = "running" /\ tickers[i].age = frequency

\* the dial of Connect, or of a reconnect, has connected and subscribe has
\* returned nil: lastHeartBeat is stamped, and a new ticker and a new
\* heartbeat loop are started; nothing is done to the tickers that exist
Subscribed ==
    /\ cfg.primaryws \/ cfg.secondaryws
    /\ link = "closed"
    /\ Len(tickers) < MaxConnects
    /\ link' = "open"
    /\ lastHeartBeat' = 0
    /\ tickers' = Append(tickers, [state |-> "running", age |-> 0])
    /\ UNCHANGED <<clientVars, coreVars, query, wpc, sendMu, receiveMu, ticker, silence,
                   closes>>

\* the i-th heartbeat loop receives a tick: on a lost heartbeat it stops
\* its own ticker, stamps lastHeartBeat and closes the connection; then it
\* sends its heartbeat and waits for the next tick
Beat(i) ==
    /\ Due(i)
    /\ IF HeartbeatLost(lastHeartBeat)
       THEN /\ tickers' = [tickers EXCEPT ![i] = [state |-> "stopped", age |-> 0]]
            /\ lastHeartBeat' = 0
            /\ closes' = closes + 1
            /\ link' = "closed"
       ELSE /\ tickers' = [tickers EXCEPT ![i].age = 0]
            /\ UNCHANGED <<lastHeartBeat, closes, link>>
    /\ UNCHANGED <<clientVars, coreVars, query, wpc, sendMu, receiveMu, ticker, silence>>

\* onTextMessage, cmd "poolmgr.heartbeat", on the open connection
Acked ==
    /\ link = "open"
    /\ lastHeartBeat # 0
    /\ lastHeartBeat' = 0
    /\ UNCHANGED <<clientVars, coreVars, query, connVars, wpc, sendMu, receiveMu, ticker,
                   silence, closes>>

\* the underlying connection is lost and starts to reconnect by itself
Dropped ==
    /\ link = "open"
    /\ link' = "closed"
    /\ UNCHANGED <<clientVars, coreVars, query, pushVars, tickers>>

\* a second passes, every tick so far being answered
Elapse ==
    /\ tickers # <<>>
    /\ \A i \in DOMAIN tickers : ~Due(i)
    /\ tickers' = [i \in DOMAIN tickers |->
                      IF tickers[i].state = "running"
                      THEN [tickers[i] EXCEPT !.age = @ + 1] ELSE tickers[i]]
    /\ lastHeartBeat' = Later(lastHeartBeat)
    /\ UNCHANGED <<clientVars, coreVars, query, link, wpc, sendMu, receiveMu, ticker,
                   silence, closes>>

NextReconnect ==
    \/ Subscribed
    \/ \E i \in DOMAIN tickers : Beat(i)
    \/ Acked
    \/ Dropped
    \/ Elapse

SpecReconnect == InitPush /\ [][NextReconnect]_vars

\* the heartbeat loops whose ticker runs
Active == {i \in DOMAIN tickers : tickers[i].state = "running"}

\* C29: at most one heartbeat loop is active at any time: a connection
\* loss, by a heartbeat timeout or by the underlying connection, stops the
\* running loop, and each reconnect starts exactly one fresh loop.
C29_OneHeartbeatLoop == Cardinality(Active) <= 1

(* ---------- the chain scalars read while the refresher runs ------------ *)

\* tryUpdateRound loads the chain scalars one by one, for the height checks
\* and again when it binds the round, and the refresher can store new ones
\* in between.  The height checks are one step here (Checked) and the rest
\* of tryUpdateRound, from the liar gate on, another (Bind).

\* a request passes the two height checks, or returns wrongHeight
Checked(ip, round) ==
    /\ phase = "serving"
    /\ inflight[1] = Idle
    /\ nOps < MaxOps
    /\ nOps' = nOps + 1
    /\ IF HeightMismatch(round)
       THEN /\ inflight' = inflight
            /\ out' = Answered(round, wrongHeight, "height", FALSE, "none")
       ELSE /\ inflight' = [inflight EXCEPT ![1] =
                               [pc |-> "bind", ip |-> ip, round |-> round]]
            /\ out' = [op |-> "checked"]
    /\ UNCHANGED <<auxVars, cfg, phase, chainVars, miVars, primBest, secBest,
                   cacheVars, wsVars, admitted>>

\* the request goes on: it loads currentHeight once more, binds the round
\* to the current or to the last chain and base target, and runs to the
\* return of tryUpdateRound
Bind ==
    LET r == inflight[1]
    IN /\ r.pc = "bind"
       /\ LET c == IF BoundPrimChain(r.round) THEN primc ELSE secc
              bucket == IF Exists(c, r.ip) THEN c[r.ip].item ELSE {}
          IN \E resp \in Answers(BoundPrimChain(r.round)),
                victim \in VictimsMet(bucket, r.round) :
                LET t == AfterHeightChecks(r.ip, r.round, resp, victim)
                IN /\ primc' = t.primc
                   /\ secc' = t.secc
                   /\ primBest' = t.primBest
                   /\ secBest' = t.secBest
                   /\ liarsCache' = IF t.marked
                                    THEN SetDefault(liarsCache, r.ip, TRUE)
                                    ELSE liarsCache
                   /\ admitted' = Held(Admit(admitted, r.ip, r.round, t),
                                       t.primc, t.secc)
                   /\ out' = [op |-> "bound", result |-> t.result,
                              stage |-> t.stage, Height |-> r.round.Height,
                              last |-> r.round.Height # currentHeight]
       /\ inflight' = [inflight EXCEPT ![1] = Idle]
       /\ UNCHANGED <<auxVars, cfg, phase, chainVars, miVars, wsVars, nOps>>

NextBind ==
    \/ InitialRefresh
    \/ RefreshTick
    \/ \E i \in MiningInfos : onTextMessage(i[1], i[2])
    \/ \E ip \in IPs, round \in Rounds : Checked(ip, round)
    \/ Bind

SpecBind == Init /\ [][NextBind]_vars

\* C30: an admission decides against one snapshot of the chain scalars:
\* however it interleaves with the refresher, a submission is bound to the
\* last chain and the last base target only if its height equals
\* lastHeight, and to the current ones only if it equals currentHeight.
C30_BoundToTheHeightItMatched ==
    (out.op = "bound" /\ out.stage # "liar") =>
        IF out.last THEN out.Height = lastHeight
        ELSE out.Height = currentHeight

(* -------------- requests of one account at the same time --------------- *)

\* the requests inside the compare, forward and store of tryUpdateRound:
\* past the cache Get with no bucket, or past ipData.Lock()
Deciding == {w \in Workers : inflight[w].pc \in {"fresh", "locked"}}

\* C31: the admission decisions of two concurrent requests with the same
\* ip and account on the same chain are serialized, also when no bucket
\* exists yet for the ip: no two of them are inside the compare, forward
\* and store at the same time.
C31_SameAccountSerialized ==
    \A w \in Deciding, v \in Deciding :
        ( /\ w # v
          /\ inflight[w].ip = inflight[v].ip
          /\ inflight[w].primChain = inflight[v].primChain )
        => inflight[w].round.AccountID # inflight[v].round.AccountID

(* ------------------------ a failed primary fetch ----------------------- *)

\* the primary fetches that fail: a transport error, or no mining info of
\* the push transport yet
FailedFetches == {pf \in PrimaryFetches : pf.kind \in {"neterr", "missing"}}

\* a tick of the refresher whose primary fetch fails
FailedPrimaryTick ==
    /\ phase = "serving"
    /\ nOps' = nOps + 1
    /\ \E pf \in FailedFetches :
          \E sf \in IF AsksSecondary(pf, 1) THEN SecondaryFetches ELSE {NoFetch} :
             refreshMiningInfo(pf, sf, 1)

\* C32: a refresher tick whose primary fetch fails is not fatal and leaves
\* the primary mining info, primBest and the primary cache as they were;
\* when the tick takes no secondary branch either, the current and last
\* scalars are unchanged as well.
C32_FailedPrimaryFetchKeepsPrimary ==
    [][ FailedPrimaryTick =>
          /\ phase' = "serving"
          /\ out'.op = "refresh"
          /\ out'.prim = "none"
          /\ curPrimaryMiningInfo' = Older(curPrimaryMiningInfo, 1)
          /\ primBest' = primBest
          /\ primc' = Aged(primc, 1)
          /\ out'.sec = "none" => UNCHANGED chainVars ]_vars

\* a tick has found the push transport of the primary chain without a
\* mining info, and has left the primary chain unpublished
C32_Witness ==
    /\ phase = "serving"
    /\ cfg.primaryws
    /\ ~available
    /\ out.op = "refresh"
    /\ nOps >= 1
    /\ ~curPrimaryMiningInfo.valid
    /\ curSecondaryMiningInfo.valid

(* =========================== the miner inventory ======================== *)

\* allocations of clientData objects in one behaviour
MaxClientUpdates == 3

Ports == {"5001", "5002"}
MinerNames == {"scavenger"}
Xpus == {"cpu", "gpu"}
Capacities == {1, 2}

minerCacheExpiration == 60

\* hash: the MD5 of the JSON text of a clientID, which has the exported
\* fields IP, MinerName and Xpu; one text and one digest per triple
hash(id) == <<id.IP, id.MinerName, id.Xpu>>

\* the entries of a cache a time dt later: go-cache hides and deletes an
\* entry once more than minerCacheExpiration has passed since its SetDefault
Unexpired(c, dt) ==
    LET live == {k \in DOMAIN c : c[k].age + dt <= minerCacheExpiration}
    IN  [k \in live |-> [c[k] EXCEPT !.age = @ + dt]]

\* clients.Items(): the clientData objects of the entries
Items == {clients[k].obj : k \in DOMAIN clients}

RECURSIVE CapacityOf(_)
CapacityOf(objs) ==
    IF objs = {} THEN 0
    ELSE LET o == CHOOSE x \in objs : TRUE
         IN  clientData[o].Capacity + CapacityOf(objs \ {o})

\* TotalCapacity with nobody else inside it
TotalCapacity == CapacityOf(Items)

\* UpdateClient(ip, minerName, alias, xpu, capacity)
UpdateClient(ip, minerName, alias, xpu, capacity) ==
    LET cd == [Id |-> [IP |-> ip, MinerName |-> minerName, Xpu |-> xpu],
               Capacity |-> capacity, Alias |-> alias]
        key == hash(cd.Id)
        obj == Len(clientData) + 1
    IN  /\ clientData' = Append(clientData, cd)
        /\ minerMu' = Append(minerMu, 0)
        /\ clients' = [k \in DOMAIN clients \cup {key} |->
                          IF k = key THEN [obj |-> obj, age |-> 0]
                          ELSE clients[k]]

\* the orders in which a range over a Go map may visit the objects
Orders(objs) ==
    {o \in [1..Cardinality(objs) -> objs] :
        \A i, j \in 1..Cardinality(objs) : i # j => o[i] # o[j]}

\* requestHandler, getMiningInfo: log the client, then tell the push
\* transport the new total
GetMiningInfo(w, ip, port, miner, alias, xpu, size) ==
    /\ phase = "serving"
    /\ callers[w].pc = "idle"
    /\ Len(clientData) < MaxClientUpdates
    /\ UpdateClient(ip, miner, alias, xpu, size)
    /\ registered' = [f \in DOMAIN registered \cup {<<ip, port, miner, xpu>>} |->
                         IF f = <<ip, port, miner, xpu>>
                         THEN [Capacity |-> size, age |-> 0]
                         ELSE registered[f]]
    /\ callers' = [callers EXCEPT ![w].pc =
                      IF cfg.primaryws \/ cfg.secondaryws THEN "items"
                      ELSE "idle"]
    /\ UNCHANGED <<coreVars, query, pushVars, connVars>>

\* proxySubmitRound on its way to a pull upstream: the X-Capacity header
CapacityHeader(w) ==
    /\ phase = "serving"
    /\ callers[w].pc = "idle"
    /\ callers' = [callers EXCEPT ![w].pc = "items"]
    /\ UNCHANGED <<coreVars, query, pushVars, connVars, clients, clientData,
                   minerMu, registered>>

\* TotalCapacity: miners := clients.Items()
ItemsOf(w) ==
    /\ callers[w].pc = "items"
    /\ \E o \in Orders(Items) :
          callers' = [callers EXCEPT ![w] =
                         [pc |-> "range", todo |-> o, held |-> {}, capa |-> 0]]
    /\ UNCHANGED <<coreVars, query, pushVars, connVars, clients, clientData,
                   minerMu, registered>>

\* TotalCapacity, one turn of the loop: miner.Lock(), defer miner.Unlock(),
\* capa += miner.Capacity
LockMiner(w) ==
    /\ callers[w].pc = "range"
    /\ callers[w].todo # <<>>
    /\ LET miner == Head(callers[w].todo)
       IN  /\ minerMu[miner] = 0
           /\ minerMu' = [minerMu EXCEPT ![miner] = w]
           /\ callers' = [callers EXCEPT
                  ![w].todo = Tail(@),
                  ![w].held = @ \cup {miner},
                  ![w].capa = @ + clientData[miner].Capacity]
    /\ UNCHANGED <<coreVars, query, pushVars, connVars, clients, clientData,
                   registered>>

\* TotalCapacity: return capa, and the deferred Unlocks run
ReturnCapacity(w) ==
    /\ callers[w].pc = "range"
    /\ callers[w].todo = <<>>
    /\ minerMu' = [o \in DOMAIN minerMu |->
                      IF o \in callers[w].held THEN 0 ELSE minerMu[o]]
    /\ callers' = [callers EXCEPT ![w] = NoCall]
    /\ UNCHANGED <<coreVars, query, pushVars, connVars, clients, clientData,
                   registered>>

\* minerCacheExpiration passes without a request
ElapseClients ==
    /\ phase = "serving"
    /\ clients # <<>>
    /\ clients' = Unexpired(clients, minerCacheExpiration)
    /\ registered' = Unexpired(registered, minerCacheExpiration)
    /\ UNCHANGED <<coreVars, query, pushVars, connVars, clientData, minerMu,
                   callers>>

NextClients ==
    \/ InitialRefresh
    \/ \E w \in Workers, ip \in IPs, port \in Ports, miner \in MinerNames,
          xpu \in Xpus, size \in Capacities :
          GetMiningInfo(w, ip, port, miner, "rig", xpu, size)
    \/ \E w \in Workers : CapacityHeader(w)
    \/ \E w \in Workers : ItemsOf(w)
    \/ \E w \in Workers : LockMiner(w)
    \/ \E w \in Workers : ReturnCapacity(w)
    \/ ElapseClients

SpecClients == InitPush /\ [][NextClients]_vars

\* the sum of the capacities last reported by the registered miners
RECURSIVE Reported(_)
Reported(fs) ==
    IF fs = {} THEN 0
    ELSE LET f == CHOOSE x \in fs : TRUE
         IN  registered[f].Capacity + Reported(fs \ {f})

\* C33: after any calls of UpdateClient, TotalCapacity is the sum of the
\* capacities of the miners that are not expired, where miners that
\* differ in ip, port, minerName or xpu count separately.
C33_TotalOfDistinctFingerprints ==
    TotalCapacity = Reported(DOMAIN registered)

\* the waiting of one TotalCapacity call for a mutex another call holds
Waits(w, v) ==
    /\ callers[w].pc = "range"
    /\ callers[w].todo # <<>>
    /\ minerMu[Head(callers[w].todo)] = v

\* C35: concurrent TotalCapacity calls never reach a state in which two
\* callers each hold one miner's mutex and wait for the mutex of the other.
C35_NoCallersWaitForEachOther ==
    \A w \in Workers, v \in Workers : ~(w # v /\ Waits(w, v) /\ Waits(v, w))

(* ----------------- the scalars and the served mining info --------------- *)

\* requestHandler, getMiningInfo: the mining info written to the miner
Served == IF currentPrimChain THEN curPrimaryMiningInfo
          ELSE curSecondaryMiningInfo

\* C34: at the end of every refresher tick, currentHeight and
\* currentBaseTarget are the height and the base target of the mining info
\* published for the chain currentPrimChain names, the one getMiningInfo
\* serves, whenever one is published for that chain.
C34_ScalarsMatchServedMiningInfo ==
    (phase = "serving" /\ out.op = "refresh" /\ Served.valid)
        => /\ currentHeight = Served.Height
           /\ currentBaseTarget = Served.BaseTarget

(* ---------------------- the release of the send mutex ------------------ *)

\* C36: every acquisition of sendMu is followed by its release on every
\* path, a failed handshake write included: a writer that holds sendMu is
\* still on its way to the Unlock, none has returned with the mutex held
\* (and so a submitNonce that waits for it is served).
C36_SendMuReleasedOnEveryPath ==
    \A p \in Writers : sendMu = p => p \in Writing

(* ------------------------- a forward that fails ------------------------ *)

\* C37: a submitNonce that ends in remoteErr leaves the caches, and so the
\* bucket of its ip, exactly as they were before the request, also when the
\* bucket was full and a round of a lower height was chosen to make room.
C37_RemoteErrKeepsBucket ==
    \A s \in Submissions :
       Serving =>
          LET t == Try(s)
          IN t.result = remoteErr => (t.primc = primc /\ t.secc = secc)

(* --------------- first submissions of two accounts at once ------------- *)

\* the accounts with a round in the bucket of ip in the cache c
StoredAccounts(c, ip) ==
    IF ip \in DOMAIN c THEN AccountsOf(c[ip].item) ELSE {}

\* C38: once a submitNonce has returned updated, the bucket of its ip in
\* the cache of its chain keeps an entry for its account under any
\* interleaving with other submissions of the same ip: the return of
\* another submission with updated, which flushes and expires nothing,
\* leaves the account in the bucket, and has its own account in it.
C38_UpdatedAccountsStayInBucket ==
    [][ \A w \in Workers :
          ( /\ inflight[w].pc \in {"fresh", "locked"}
            /\ inflight'[w] = Idle
            /\ out'.op = "submit"
            /\ out'.result = updated )
          => LET r == inflight[w]
                 before == IF r.primChain THEN primc ELSE secc
                 after == IF r.primChain THEN primc' ELSE secc'
             IN StoredAccounts(before, r.ip) \cup {r.round.AccountID}
                   \subseteq StoredAccounts(after, r.ip) ]_vars

(* ------------------------ no secondary upstream ------------------------ *)

\* C39: with no secondary upstream configured and the primary mining info
\* published, no submission that passes the height checks of
\* tryUpdateRound is bound to the secondary chain (to secTDL, secBest, secc
\* and the empty secondarySubmitURL), whatever height the miner submits.
C39_NeverBoundToMissingSecondary ==
    (Serving /\ ~cfg.secondary /\ curPrimaryMiningInfo.valid)
        => \A round \in Rounds : ~HeightMismatch(round) => BoundPrimChain(round)

(* ---------------------- base targets as divisors ----------------------- *)

\* the (height, base target) pairs of the bodies an upstream may answer
\* with, among them base target 0 and a body with neither field
ReportedMiningInfos == MiningInfos \cup {<<0, 0>>, <<1, 0>>}

ReportedFetches ==
    Fetches \cup {[kind |-> "ok", Height |-> i[1], BaseTarget |-> i[2]] :
                     i \in ReportedMiningInfos}

\* main: the initial refresh, of upstreams that answer anything they may
InitialRefreshOfAny ==
    /\ phase = "boot"
    /\ \E pf \in ReportedFetches :
          \E sf \in IF AsksSecondary(pf, 0) THEN ReportedFetches ELSE {NoFetch} :
             /\ refreshMiningInfo(pf, sf, 0)
             /\ phase' = IF out'.err THEN "exited" ELSE "serving"
    /\ UNCHANGED <<auxVars, cfg, wsVars, nOps>>

\* main: a tick of the refresher, of upstreams that answer anything they may
RefreshTickOfAny ==
    /\ phase = "serving"
    /\ nOps < MaxOps
    /\ nOps' = nOps + 1
    /\ \E pf \in ReportedFetches :
          \E sf \in IF AsksSecondary(pf, 1) THEN ReportedFetches ELSE {NoFetch} :
             refreshMiningInfo(pf, sf, 1)
    /\ UNCHANGED <<auxVars, cfg, phase, wsVars>>

\* the base target an unadjusted deadline is divided by, in tryUpdateRound
\* and in the answers written from the scalars
Divisor(round) == BoundBaseTarget(round)

\* requestHandler, submitNonce of an unadjusted round: an integer division
\* by zero is a run-time panic, which ends the request with no answer and
\* nothing stored
SubmitUnadjusted(ip, round) ==
    /\ ~round.Adjusted
    /\ IF phase = "serving" /\ ~HeightMismatch(round) /\ Divisor(round) = 0
       THEN /\ nOps < MaxOps
            /\ nOps' = nOps + 1
            /\ out' = [op |-> "panic", Height |-> round.Height]
            /\ UNCHANGED <<auxVars, cfg, phase, chainVars, miVars, primBest,
                           secBest, cacheVars, wsVars, admitted, inflight>>
       ELSE SubmitNonce(ip, round)

NextTargets ==
    \/ InitialRefreshOfAny
    \/ RefreshTickOfAny
    \/ \E ip \in IPs, round \in Rounds : SubmitUnadjusted(ip, round)

SpecTargets == InitConc /\ [][NextTargets]_vars

\* C40: in every reachable state the base target by which an unadjusted
\* deadline is divided is at least 1, whatever the upstreams have reported,
\* so that no admission divides by zero.
C40_DivisorAtLeastOne ==
    /\ out.op # "panic"
    /\ Serving =>
          \A round \in Rounds : ~HeightMismatch(round) => Divisor(round) >= 1

====
